---- MODULE Spec2Model ----
(***************************************************************************)
(* subtracker: the cost calculation of SubscriptionService.CalculateCost   *)
(* (internal/service/subscription_service.go) over the rows returned by    *)
(* SubscriptionRepository.ListForCostCalculation                           *)
(* (internal/repository/subscription_repo.go).                             *)
(*                                                                         *)
(* time.Time is an integer count of ticks.  A model month has MaxDay days  *)
(* and a day has two ticks (midnight, and the last nanosecond of the day), *)
(* so that AddDate(0, 1, 0).Add(-1 * time.Nanosecond) is the last tick of  *)
(* the month.  Month index 0 is January of year 0.                         *)
(***************************************************************************)
EXTENDS Integers, Sequences, FiniteSets, TLC

VARIABLES
    store,          \* the rows of the table subscriptions
    request,        \* the input of the last operation
    response,       \* the HTTP response of the last operation: [status, total_cost]
    dbFailed,       \* whether the database failed the last query
    serviceCalled,  \* whether the last handler invoked the service
    filter,         \* dto.CostFilter handed to SubscriptionService.CalculateCost
    repoResult,     \* what the repository's read returns, [rows, err]: the rows of
                    \* ListForCostCalculation, the row of GetSubscription
    result,         \* what the service returns: [totalCost, err]
    logged,         \* the debug log of the service call: the entries of the
                    \* cost loop, the repository methods of the other calls
    calls,          \* the cost calls of concurrent requests, by goroutine
    proc,           \* the process: the position of main or of ConnectDB, its
                    \* clock and its environment
    pc              \* the last operation, or the position of a service call

vars == <<store, request, response, dbFailed, serviceCalled,
          filter, repoResult, result, logged, calls, proc, pc>>

----------------------------------------------------------------------------
(* Bounds *)

MaxSubs == 2      \* longest list of rows the repository returns
MaxPrice == 2     \* the largest price; prices are -1, 0 and MaxPrice
NumMonths == 3    \* calendar months of the model: November 2024 onwards
MaxDay == 2       \* days of a model month
MaxIds == 1       \* subscription ids, the rows the table can hold
NumProcs == 2     \* goroutines serving cost requests at the same time
MaxActive == 2    \* requests in flight when the server shuts down

----------------------------------------------------------------------------
(* time.Time *)

MonthsPerYear == 12

TicksPerMonth == MaxDay * 2

FirstMonth == 2024 * MonthsPerYear + 10

Months == FirstMonth .. (FirstMonth + NumMonths - 1)

Days == 1 .. MaxDay

\* time.Date(y, mo, d, 0, 0, 0, 0, time.UTC), with m = y * 12 + (mo - 1)
Date(m, d) == m * TicksPerMonth + (d - 1) * 2

\* t.AddDate(0, months, 0)
AddDate(t, months) == t + months * TicksPerMonth

\* t.Add(ns * time.Nanosecond)
Add(t, ns) == t + ns

Before(t, u) == t < u

After(t, u) == t > u

MonthIndex(t) == t \div TicksPerMonth

\* t.Year()
Year(t) == MonthIndex(t) \div MonthsPerYear

\* int(t.Month()): 1 .. 12
Month(t) == (MonthIndex(t) % MonthsPerYear) + 1

\* time.Parse("01-2006", s): the first day of the month, midnight UTC
ParseMonth(m) == Date(m, 1)

----------------------------------------------------------------------------
(* Values *)

\* *time.Time: <<>> is nil, <<t>> points to t
Nil == <<>>

Ptr(t) == <<t>>

Deref(p) == p[1]

\* uuid.Nil
UUIDNil == 0

Ids == 1 .. MaxIds

NoError == "nil"

\* apperrors.New(http.StatusConflict, ...)
ErrConflict == "409 subscription with this ID already exists"

\* apperrors.NewInternalServerError("database error on create", err)
ErrInternalCreate == "500 database error on create"

\* apperrors.NewBadRequest(...)
ErrBadRequest == "400 bad request"

\* apperrors.NewNotFound("subscription not found", err)
ErrNotFound == "404 subscription not found"

\* apperrors.NewNotFound("subscription to update not found", nil)
ErrNotFoundUpdate == "404 subscription to update not found"

\* apperrors.NewNotFound("subscription to delete not found", nil)
ErrNotFoundDelete == "404 subscription to delete not found"

\* apperrors.NewInternalServerError("database error on update", err)
ErrInternalUpdate == "500 database error on update"

\* AppError.Code
Code(err) ==
    CASE err = ErrBadRequest -> 400
      [] err \in {ErrNotFound, ErrNotFoundUpdate, ErrNotFoundDelete} -> 404
      [] err = ErrConflict -> 409
      [] OTHER -> 500

ErrInternal == "500 database error on cost calculation"

\* apperrors.NewInternalServerError("database error on scan for cost", err)
ErrInternalScan == "500 database error on scan for cost"

Dates == {Date(m, d) : m \in Months, d \in Days}

MonthStarts == {ParseMonth(m) : m \in Months}

\* a negative price, the price 0 and a positive price
Prices == {0 - 1, 0, MaxPrice}

UserIDs == {"u1", "u2"}

ServiceNames == {"Netflix", "Spotify"}

\* dao.SubscriptionRow
SubscriptionRow(id, userID, serviceName, price, startDate, endDate) ==
    [ID |-> id, UserID |-> userID, ServiceName |-> serviceName,
     Price |-> price, StartDate |-> startDate, EndDate |-> endDate]

\* dto.CostFilter
CostFilter(userID, serviceName, periodStart, periodEnd) ==
    [UserID |-> userID, ServiceName |-> serviceName,
     PeriodStart |-> periodStart, PeriodEnd |-> periodEnd]

----------------------------------------------------------------------------
(* SubscriptionService.CalculateCost: the loop over the returned rows *)

\* mutant: the period ends at the first instant of its last month
PeriodEndEffective_FirstDay(f) == f.PeriodEnd

\* mutant: the period runs to the end of the month after its last month
PeriodEndEffective_NextMonth(f) == Add(AddDate(f.PeriodEnd, 2), 0 - 1)

\* periodEndEffective := filter.PeriodEnd.AddDate(0, 1, 0).Add(-1 * time.Nanosecond)
PeriodEndEffective(f) == Add(AddDate(f.PeriodEnd, 1), 0 - 1)

\* mutant: the end date is not capped by the period end
SubEnd_IgnorePeriod(sub, periodEndEffective) ==
    IF sub.EndDate # Nil THEN Deref(sub.EndDate) ELSE periodEndEffective

\* mutant: the end date of the subscription is ignored
SubEnd_AlwaysPeriodEnd(sub, periodEndEffective) == periodEndEffective

\* subEnd := periodEndEffective; if sub.EndDate != nil &&
\* sub.EndDate.Before(periodEndEffective) { subEnd = *sub.EndDate }
SubEnd(sub, periodEndEffective) ==
    IF sub.EndDate # Nil /\ Before(Deref(sub.EndDate), periodEndEffective)
    THEN Deref(sub.EndDate)
    ELSE periodEndEffective

\* mutant: the start is not clipped to the period start
OverlapStart_NoClip(sub, f) == sub.StartDate

\* overlapStart := filter.PeriodStart; if subStart.After(overlapStart) { ... }
OverlapStart(sub, f) ==
    IF After(sub.StartDate, f.PeriodStart) THEN sub.StartDate ELSE f.PeriodStart

\* mutant: the end date of a closed subscription is not clipped to the period
OverlapEnd_NoClip(sub, f) ==
    IF sub.EndDate # Nil THEN Deref(sub.EndDate) ELSE PeriodEndEffective(f)

\* overlapEnd := subEnd
OverlapEnd(sub, f) == SubEnd(sub, PeriodEndEffective(f))

\* mutant: the skip check is missing
IsSkipped_Never(overlapStart, overlapEnd) == FALSE

\* if overlapStart.After(overlapEnd) { continue }
IsSkipped(overlapStart, overlapEnd) == After(overlapStart, overlapEnd)

\* mutant: the end month is not counted
MonthsCounted_NoPlusOne(overlapStart, overlapEnd) ==
    (Year(overlapEnd) - Year(overlapStart)) * MonthsPerYear
        + Month(overlapEnd) - Month(overlapStart)

\* months := (overlapEnd.Year()-overlapStart.Year())*12 +
\*           int(overlapEnd.Month()) - int(overlapStart.Month()) + 1
MonthsCounted(overlapStart, overlapEnd) ==
    (Year(overlapEnd) - Year(overlapStart)) * MonthsPerYear
        + Month(overlapEnd) - Month(overlapStart) + 1

\* mutant: the price is billed once, not per month
CostForSub_NoMonths(sub, months) == sub.Price

\* costForSub := sub.Price * months
CostForSub(sub, months) == sub.Price * months

\* mutant: totalCost = costForSub
AddCost_Assign(totalCost, costForSub) == costForSub

\* totalCost += costForSub
AddCost(totalCost, costForSub) == totalCost + costForSub

\* the debug log line of one iteration
LogEntry(skipped, months, cost) ==
    [skipped |-> skipped, months_counted |-> months, cost_for_this_sub |-> cost]

\* one iteration of the loop, on the accumulator acc = [totalCost, logged]
LoopBody(acc, sub, f) ==
    LET overlapStart == OverlapStart(sub, f)
        overlapEnd == OverlapEnd(sub, f)
        months == MonthsCounted(overlapStart, overlapEnd)
        costForSub == CostForSub(sub, months)
    IN  IF IsSkipped(overlapStart, overlapEnd)
        THEN [totalCost |-> acc.totalCost,
              logged |-> Append(acc.logged, LogEntry(TRUE, 0, 0))]
        ELSE [totalCost |-> AddCost(acc.totalCost, costForSub),
              logged |-> Append(acc.logged, LogEntry(FALSE, months, costForSub))]

\* for _, sub := range subscriptions { ... }
RECURSIVE CostLoop(_, _, _, _)
CostLoop(subscriptions, i, acc, f) ==
    IF i > Len(subscriptions)
    THEN acc
    ELSE CostLoop(subscriptions, i + 1, LoopBody(acc, subscriptions[i], f), f)

\* the body of CalculateCost, given what the repository returned
CalculateCost(repo, f) ==
    IF repo.err # NoError
    THEN [totalCost |-> 0, err |-> repo.err, logged |-> <<>>]
    ELSE LET acc == CostLoop(repo.rows, 1, [totalCost |-> 0, logged |-> <<>>], f)
         IN  [totalCost |-> acc.totalCost, err |-> NoError, logged |-> acc.logged]

----------------------------------------------------------------------------
(* The calculator against the repository interface: the repository may     *)
(* return any list of rows, or an error                                    *)

EndDates(dates) == {Nil} \cup {Ptr(t) : t \in dates}

RowsOver(dates) ==
    {SubscriptionRow(1, "u1", "Netflix", p, s, e) :
        p \in Prices, s \in dates, e \in EndDates(dates)}

\* CHECK (end_date IS NULL OR end_date >= start_date)
CheckEndDate(row) == row.EndDate = Nil \/ Deref(row.EndDate) >= row.StartDate

\* the rows a table with the CHECK constraint can hold
StoredRowsOver(dates) == {r \in RowsOver(dates) : CheckEndDate(r)}

CalcFilters ==
    {CostFilter("u1", "", ps, pe) : ps \in MonthStarts, pe \in MonthStarts}

NoRequest == [op |-> "none"]

NoResponse == [status |-> 0, total_cost |-> 0]

NoFilter == CostFilter("", "", 0, 0)

NoRepoCall == [rows |-> <<>>, err |-> NoError]

NoResult == [totalCost |-> 0, err |-> NoError]

\* the goroutines the server runs cost requests in
Procs == 1 .. NumProcs

\* a goroutine serving no cost request
IdleCall ==
    [pc |-> "idle", filter |-> NoFilter, seen |-> {}, failed |-> FALSE,
     repo |-> NoRepoCall, result |-> NoResult]

NoCalls == [p \in Procs |-> IdleCall]

InitCalc ==
    /\ store = {}
    /\ request = NoRequest
    /\ response = NoResponse
    /\ dbFailed = FALSE
    /\ serviceCalled = FALSE
    /\ filter \in CalcFilters
    /\ \/ \* one row of any day of the month, the CHECK constraint not assumed,
          \* alone, or before or after a month-aligned row
          \E r \in RowsOver(Dates) :
            \/ repoResult = [rows |-> <<r>>, err |-> NoError]
            \/ \E a \in StoredRowsOver(MonthStarts) : \E l \in {<<r, a>>, <<a, r>>} :
                  repoResult = [rows |-> l, err |-> NoError]
       \/ \* a list of month-aligned rows as a table can hold them
          \E k \in 0 .. MaxSubs : \E l \in [1 .. k -> StoredRowsOver(MonthStarts)] :
            repoResult = [rows |-> l, err |-> NoError]
       \/ repoResult = [rows |-> <<>>, err |-> ErrInternal]
    /\ result = [totalCost |-> 0, err |-> NoError]
    /\ logged = <<>>
    /\ calls = NoCalls
    /\ proc = [pc |-> "serving"]
    /\ pc = "called"

ServiceCalculateCost ==
    /\ pc = "called"
    /\ LET r == CalculateCost(repoResult, filter)
       IN  /\ result' = [totalCost |-> r.totalCost, err |-> r.err]
           /\ logged' = r.logged
    /\ pc' = "returned"
    /\ UNCHANGED <<store, request, response, dbFailed, serviceCalled, filter, repoResult, calls,
                 proc>>

NextCalc == ServiceCalculateCost

SpecCalc == InitCalc /\ [][NextCalc]_vars

----------------------------------------------------------------------------
(* The service over the table: SubscriptionRepository on the table          *)
(* subscriptions, SubscriptionService and the cost endpoint                 *)

\* the dates and prices of the rows created in the table
StoreDates == {Date(m, d) : m \in Months, d \in {1, MaxDay}}

StorePrices == {MaxPrice}

\* domain.Subscription handed to SubscriptionService.CreateSubscription
CreateInputs ==
    {SubscriptionRow(id, u, n, p, s, e) :
        id \in {UUIDNil} \cup Ids, u \in UserIDs, n \in ServiceNames,
        p \in StorePrices, s \in StoreDates, e \in EndDates(StoreDates)}

StoredIds(st) == {r.ID : r \in st}

\* mutant: the table has no primary key for the INSERT to violate
InsertError_NoPrimaryKey(st, row) ==
    IF ~CheckEndDate(row) THEN ErrInternalCreate ELSE NoError

\* INSERT INTO subscriptions ...: the error of the insert
InsertError(st, row) ==
    IF ~CheckEndDate(row) THEN ErrInternalCreate
    ELSE IF row.ID \in StoredIds(st) THEN ErrConflict
    ELSE NoError

\* SubscriptionRepository.CreateSubscription: the table after the insert
RepoCreateSubscription(st, row) ==
    IF InsertError(st, row) = NoError THEN st \cup {row} ELSE st

\* if subDomain.ID == uuid.Nil { subDomain.ID = uuid.New() }: the ids the
\* row can be created with
NewIds(st, subDomain) ==
    IF subDomain.ID = UUIDNil THEN Ids \ StoredIds(st) ELSE {subDomain.ID}

\* SubscriptionService.CreateSubscription
CreateSubscription ==
    /\ pc = "idle"
    /\ \E subDomain \in CreateInputs :
         \E id \in NewIds(store, subDomain) :
           LET subDao == [subDomain EXCEPT !.ID = id]
           IN  /\ store' = RepoCreateSubscription(store, subDao)
               /\ request' = [op |-> "create", ID |-> subDomain.ID]
               /\ result' = [totalCost |-> 0, err |-> InsertError(store, subDao)]
               /\ response' = NoResponse
               /\ dbFailed' = FALSE
               /\ serviceCalled' = TRUE
               /\ filter' = NoFilter
               /\ repoResult' = NoRepoCall
               /\ logged' = <<>>
               /\ pc' = "CreateSubscription"
               /\ UNCHANGED <<calls, proc>>

\* mutant: the WHERE clause without user_id = filter.UserID
MatchesCostFilter_AnyUser(row, f) ==
    /\ f.ServiceName # "" => row.ServiceName = f.ServiceName
    /\ row.StartDate <= f.PeriodEnd
    /\ row.EndDate = Nil \/ Deref(row.EndDate) >= f.PeriodStart

\* the WHERE clause of ListForCostCalculation
MatchesCostFilter(row, f) ==
    /\ row.UserID = f.UserID
    /\ f.ServiceName # "" => row.ServiceName = f.ServiceName
    /\ row.StartDate <= f.PeriodEnd
    /\ row.EndDate = Nil \/ Deref(row.EndDate) >= f.PeriodStart

\* the rows ListForCostCalculation selects
ListForCostCalculation(st, f) == {r \in st : MatchesCostFilter(r, f)}

\* the orders in which the rows of a result set can be returned
Orderings(S) ==
    {l \in [1 .. Cardinality(S) -> S] : \A i, j \in 1 .. Cardinality(S) : l[i] = l[j] => i = j}

\* a query parameter of the cost endpoint: a "MM-YYYY" text, a text that is
\* no "MM-YYYY", or no text
MonthParam(m) == [text |-> "MM-YYYY", month |-> m]

MalformedParam == [text |-> "2025-01", month |-> 0]

MissingParam == [text |-> "", month |-> 0]

\* dto.CostRequest
CostRequest(userID, serviceName, periodStart, periodEnd) ==
    [op |-> "cost", UserID |-> userID, ServiceName |-> serviceName,
     PeriodStart |-> periodStart, PeriodEnd |-> periodEnd]

\* validate:"required,uuid4"
IsUUID4(str) == str \in UserIDs

\* validate:"required,datetime=01-2006"
IsMonthText(param) == param.text = "MM-YYYY"

\* mutant: user_id is not validated
ValidateCostRequest_DatesOnly(req) ==
    /\ IsMonthText(req.PeriodStart)
    /\ IsMonthText(req.PeriodEnd)

\* validator.ValidateStruct(costRequest)
ValidateCostRequest(req) ==
    /\ IsUUID4(req.UserID)
    /\ IsMonthText(req.PeriodStart)
    /\ IsMonthText(req.PeriodEnd)

\* the cost requests: those of user u1 with valid parameters (the table
\* holds rows of both users), and requests with one invalid parameter
CostRequests ==
    {CostRequest("u1", n, MonthParam(ps), MonthParam(pe)) :
        n \in {"", "Netflix"}, ps \in Months, pe \in Months}
    \cup {CostRequest(u, "", MonthParam(FirstMonth), MonthParam(FirstMonth)) :
            u \in {"", "not-a-uuid"}}
    \cup {CostRequest("u1", "", p, MonthParam(FirstMonth)) :
            p \in {MalformedParam, MissingParam}}
    \cup {CostRequest("u1", "", MonthParam(FirstMonth), p) :
            p \in {MalformedParam, MissingParam}}

\* SubscriptionHandler.CalculateCost, answering a request the handler rejects
RejectCost(req) ==
    /\ request' = req
    /\ response' = [status |-> Code(ErrBadRequest), total_cost |-> 0]
    /\ serviceCalled' = FALSE
    /\ dbFailed' = FALSE
    /\ filter' = NoFilter
    /\ repoResult' = NoRepoCall
    /\ result' = NoResult
    /\ logged' = <<>>
    /\ pc' = "CalculateCost"
    /\ UNCHANGED <<store, calls, proc>>

\* mutant: an empty result set is reported as an error, as sql.ErrNoRows is
RepoReturn_ErrorOnNoRows(rows) ==
    [rows |-> rows, err |-> IF rows = <<>> THEN ErrInternal ELSE NoError]

\* the rows and the error ListForCostCalculation returns for a result set
RepoReturn(rows) == [rows |-> rows, err |-> NoError]

\* what ListForCostCalculation returns when the database fails while the
\* query would have returned rows: QueryContext fails, rows.Scan fails, or
\* rows.Next() ends the loop early (rows.Err() is not consulted), which
\* returns the rows read so far and a nil error
QueryFailures(rows) ==
    {[rows |-> <<>>, err |-> ErrInternal], [rows |-> <<>>, err |-> ErrInternalScan]}
    \cup {RepoReturn(SubSeq(rows, 1, k)) : k \in 0 .. Len(rows) - 1}

\* SubscriptionHandler.CalculateCost, the service invoked with filter f and
\* the repository returning repo
ServeCost(req, f, repo, failed) ==
    LET r == CalculateCost(repo, f)
    IN  /\ request' = req
        /\ serviceCalled' = TRUE
        /\ dbFailed' = failed
        /\ filter' = f
        /\ repoResult' = repo
        /\ result' = [totalCost |-> r.totalCost, err |-> r.err]
        /\ logged' = r.logged
        /\ response' = IF r.err # NoError
                       THEN [status |-> Code(r.err), total_cost |-> 0]
                       ELSE [status |-> 200, total_cost |-> r.totalCost]
        /\ pc' = "CalculateCost"
        /\ UNCHANGED <<store, calls, proc>>

\* SubscriptionHandler.CalculateCost
HandlerCalculateCost ==
    /\ pc = "idle"
    /\ \E req \in CostRequests :
        IF ~ValidateCostRequest(req)
        THEN RejectCost(req)
        ELSE LET periodStart == ParseMonth(req.PeriodStart.month)
                 periodEnd == ParseMonth(req.PeriodEnd.month)
                 f == CostFilter(req.UserID, req.ServiceName, periodStart, periodEnd)
             IN  IF Before(periodEnd, periodStart)
                 THEN RejectCost(req)
                 ELSE \/ \E rows \in Orderings(ListForCostCalculation(store, f)) :
                            ServeCost(req, f, RepoReturn(rows), FALSE)
                      \/ \E rows \in Orderings(ListForCostCalculation(store, f)) :
                            \E repo \in QueryFailures(rows) :
                                ServeCost(req, f, repo, TRUE)

Init ==
    /\ store = {}
    /\ request = NoRequest
    /\ response = NoResponse
    /\ dbFailed = FALSE
    /\ serviceCalled = FALSE
    /\ filter = NoFilter
    /\ repoResult = NoRepoCall
    /\ result = NoResult
    /\ logged = <<>>
    /\ calls = NoCalls
    /\ proc = [pc |-> "serving"]
    /\ pc = "idle"

\* the response is written and the server waits for the next request
NextRequest ==
    /\ pc \in {"CreateSubscription", "UpdateSubscription", "DeleteSubscription",
              "CalculateCost", "GetSubscription", "ListSubscriptions"}
    /\ request' = NoRequest
    /\ response' = NoResponse
    /\ dbFailed' = FALSE
    /\ serviceCalled' = FALSE
    /\ filter' = NoFilter
    /\ repoResult' = NoRepoCall
    /\ result' = NoResult
    /\ logged' = <<>>
    /\ pc' = "idle"
    /\ UNCHANGED <<store, calls, proc>>

Next ==
    \/ CreateSubscription
    \/ HandlerCalculateCost
    \/ NextRequest

Spec == Init /\ [][Next]_vars

----------------------------------------------------------------------------
(* Cost requests served at the same time.  net/http runs every request in  *)
(* its own goroutine.  A cost call reads the table with the one SELECT of   *)
(* ListForCostCalculation and then runs its loop on the rows it received,   *)
(* while the INSERT and DELETE statements of other requests run in between. *)

\* mutant: the statement has no WHERE clause
RepoDeleteSubscription_NoWhere(st, id) == IF id \in {r.ID : r \in st} THEN {} ELSE st

\* DELETE FROM subscriptions WHERE id = $1: the table after the statement
RepoDeleteSubscription(st, id) == {r \in st : r.ID # id}

\* the two rows the create requests running beside the cost calls insert
ConcRows ==
    {SubscriptionRow(id, "u1", "Netflix", MaxPrice, Date(FirstMonth, 1), Nil) :
        id \in {1, 2}}

\* the filters of the concurrent cost calls
ConcFilters ==
    {CostFilter("u1", "", Date(FirstMonth, 1), Date(pe, 1)) :
        pe \in {FirstMonth, FirstMonth + 1}}

\* another request runs SubscriptionRepository.CreateSubscription
OtherCreate ==
    /\ \E row \in ConcRows :
         /\ InsertError(store, row) = NoError
         /\ store' = RepoCreateSubscription(store, row)
    /\ UNCHANGED <<request, response, dbFailed, serviceCalled, filter,
                   repoResult, result, logged, calls, proc, pc>>

\* another request runs SubscriptionRepository.DeleteSubscription
OtherDelete ==
    /\ \E id \in StoredIds(store) : store' = RepoDeleteSubscription(store, id)
    /\ UNCHANGED <<request, response, dbFailed, serviceCalled, filter,
                   repoResult, result, logged, calls, proc, pc>>

\* goroutine p enters CalculateCost and s.repo.ListForCostCalculation runs
\* its query
CallQuery(p) ==
    /\ calls[p].pc = "idle"
    /\ \E f \in ConcFilters :
         \E rows \in Orderings(ListForCostCalculation(store, f)) :
            \/ calls' = [calls EXCEPT ![p] =
                           [pc |-> "queried", filter |-> f, seen |-> store,
                            failed |-> FALSE, repo |-> RepoReturn(rows),
                            result |-> NoResult]]
            \/ \E repo \in QueryFailures(rows) :
                  calls' = [calls EXCEPT ![p] =
                              [pc |-> "queried", filter |-> f, seen |-> store,
                               failed |-> TRUE, repo |-> repo, result |-> NoResult]]
    /\ UNCHANGED <<store, request, response, dbFailed, serviceCalled, filter,
                   repoResult, result, logged, proc, pc>>

\* mutant: the loop adds to a total shared with the other goroutines
CallLoop_SharedTotal(p) ==
    /\ calls[p].pc = "queried"
    /\ LET r == CalculateCost(calls[p].repo, calls[p].filter)
           q == CHOOSE q \in Procs : q # p
       IN  calls' = [calls EXCEPT ![p].pc = "returned",
                                  ![p].result =
                                      [totalCost |-> calls[q].result.totalCost + r.totalCost,
                                       err |-> r.err]]
    /\ UNCHANGED <<store, request, response, dbFailed, serviceCalled, filter,
                   repoResult, result, logged, proc, pc>>

\* goroutine p runs the rest of CalculateCost on the rows its query returned
CallLoop(p) ==
    /\ calls[p].pc = "queried"
    /\ LET r == CalculateCost(calls[p].repo, calls[p].filter)
       IN  calls' = [calls EXCEPT ![p].pc = "returned",
                                  ![p].result = [totalCost |-> r.totalCost, err |-> r.err]]
    /\ UNCHANGED <<store, request, response, dbFailed, serviceCalled, filter,
                   repoResult, result, logged, proc, pc>>

\* the handler of goroutine p writes its response and the goroutine ends
CallReturn(p) ==
    /\ calls[p].pc = "returned"
    /\ calls' = [calls EXCEPT ![p] = IdleCall]
    /\ UNCHANGED <<store, request, response, dbFailed, serviceCalled, filter,
                   repoResult, result, logged, proc, pc>>

NextConc ==
    \/ OtherCreate
    \/ OtherDelete
    \/ \E p \in Procs : CallQuery(p)
    \/ \E p \in Procs : CallLoop(p)
    \/ \E p \in Procs : CallReturn(p)

SpecConc == Init /\ [][NextConc]_vars

----------------------------------------------------------------------------
(* The HTTP API: the handlers of POST /subscriptions, PUT and DELETE       *)
(* /subscriptions/{id} and GET /subscriptions/cost, one request at a time  *)

\* the months the bodies of create and update requests name
ApiMonths == {FirstMonth, FirstMonth + 1}

\* the ids uuid.New() draws from: the table holds up to MaxSubs rows
ApiIds == 1 .. MaxSubs

\* the {id} of the path: the text of a UUID, or a text uuid.Parse rejects
IdParam(id) == [text |-> "uuid", id |-> id]

MalformedId == [text |-> "not-a-uuid", id |-> UUIDNil]

\* uuid.Parse(idStr) returns no error
IsUUID(idParam) == idParam.text = "uuid"

\* dto.CreateSubscriptionRequest, decoded from the body; Body tells whether
\* json.NewDecoder(r.Body).Decode succeeds
CreateSubscriptionRequest(body, serviceName, price, userID, startDate, endDate) ==
    [op |-> "create", Body |-> body, ServiceName |-> serviceName, Price |-> price,
     UserID |-> userID, StartDate |-> startDate, EndDate |-> endDate]

\* dto.UpdateSubscriptionRequest, with the {id} of the path
UpdateSubscriptionRequest(id, body, serviceName, price, startDate, endDate) ==
    [op |-> "update", ID |-> id, Body |-> body, ServiceName |-> serviceName,
     Price |-> price, StartDate |-> startDate, EndDate |-> endDate]

\* DELETE /subscriptions/{id}
DeleteSubscriptionRequest(id) == [op |-> "delete", ID |-> id]

\* validate:"required" on a string or an int: the value is not the zero
\* value of its type
IsRequiredString(str) == str # ""

IsRequiredInt(n) == n # 0

\* validate:"omitempty,datetime=01-2006"
IsOptionalMonthText(param) == param = MissingParam \/ IsMonthText(param)

\* validate:"required,gte=0" on Price
ValidatePrice(price) == IsRequiredInt(price) /\ price >= 0

\* validator.ValidateStruct(req) on a dto.CreateSubscriptionRequest
ValidateCreateRequest(req) ==
    /\ IsRequiredString(req.ServiceName)
    /\ ValidatePrice(req.Price)
    /\ IsUUID4(req.UserID)
    /\ IsMonthText(req.StartDate)
    /\ IsOptionalMonthText(req.EndDate)

\* validator.ValidateStruct(req) on a dto.UpdateSubscriptionRequest
ValidateUpdateRequest(req) ==
    /\ IsRequiredString(req.ServiceName)
    /\ ValidatePrice(req.Price)
    /\ IsMonthText(req.StartDate)
    /\ IsOptionalMonthText(req.EndDate)

\* the end date of mapper.ToDomainFromDTO and mapper.ToDomainFromUpdateDTO
ParseEndDate(param) ==
    IF param = MissingParam THEN Nil ELSE Ptr(ParseMonth(param.month))

\* mapper.ToDomainFromDTO: ID is left uuid.Nil
ToDomainFromDTO(req) ==
    SubscriptionRow(UUIDNil, req.UserID, req.ServiceName, req.Price,
                    ParseMonth(req.StartDate.month), ParseEndDate(req.EndDate))

\* mapper.ToDomainFromUpdateDTO followed by sub.ID = id: UserID is left
\* uuid.Nil
ToDomainFromUpdateDTO(req) ==
    SubscriptionRow(req.ID.id, "", req.ServiceName, req.Price,
                    ParseMonth(req.StartDate.month), ParseEndDate(req.EndDate))

\* SubscriptionRepository.GetSubscription: the rows with the id
RepoGetSubscription(st, id) == {r \in st : r.ID = id}

\* mutant: the table has no CHECK constraint for the UPDATE to violate
UpdateError_NoCheck(st, subDao) ==
    IF subDao.ID \notin StoredIds(st) THEN ErrNotFoundUpdate ELSE NoError

\* UPDATE subscriptions SET service_name, price, start_date, end_date WHERE
\* id: the error of the statement
UpdateError(st, subDao) ==
    IF subDao.ID \notin StoredIds(st) THEN ErrNotFoundUpdate
    ELSE IF ~CheckEndDate(subDao) THEN ErrInternalUpdate
    ELSE NoError

\* mutant: the statement sets end_date = COALESCE($4, end_date)
RepoUpdateSubscription_KeepEndDate(st, subDao) ==
    IF UpdateError(st, subDao) # NoError THEN st
    ELSE {IF r.ID = subDao.ID
          THEN [r EXCEPT !.ServiceName = subDao.ServiceName, !.Price = subDao.Price,
                         !.StartDate = subDao.StartDate,
                         !.EndDate = IF subDao.EndDate = Nil THEN @ ELSE subDao.EndDate]
          ELSE r : r \in st}

\* mutant: the statement is INSERT ... ON CONFLICT (id) DO UPDATE
RepoUpdateSubscription_Upsert(st, subDao) ==
    IF subDao.ID \notin StoredIds(st) THEN st \cup {subDao}
    ELSE IF UpdateError(st, subDao) # NoError THEN st
    ELSE {IF r.ID = subDao.ID
          THEN [r EXCEPT !.ServiceName = subDao.ServiceName, !.Price = subDao.Price,
                         !.StartDate = subDao.StartDate, !.EndDate = subDao.EndDate]
          ELSE r : r \in st}

\* SubscriptionRepository.UpdateSubscription: the table after the statement
RepoUpdateSubscription(st, subDao) ==
    IF UpdateError(st, subDao) # NoError THEN st
    ELSE {IF r.ID = subDao.ID
          THEN [r EXCEPT !.ServiceName = subDao.ServiceName, !.Price = subDao.Price,
                         !.StartDate = subDao.StartDate, !.EndDate = subDao.EndDate]
          ELSE r : r \in st}

\* finalSubDAO of SubscriptionService.UpdateSubscription
FinalSubDAO(existingSubDAO, subToUpdate) ==
    SubscriptionRow(existingSubDAO.ID, existingSubDAO.UserID, subToUpdate.ServiceName,
                    subToUpdate.Price, subToUpdate.StartDate, subToUpdate.EndDate)

\* mutant: the row is replaced by the update request as it was mapped
ServiceUpdateSubscription_Overwrite(st, subToUpdate) ==
    IF RepoGetSubscription(st, subToUpdate.ID) = {}
    THEN [store |-> st, err |-> ErrNotFound, repoCalls |-> <<"GetSubscription">>,
          read |-> [rows |-> <<>>, err |-> ErrNotFound]]
    ELSE [store |-> {IF r.ID = subToUpdate.ID THEN subToUpdate ELSE r : r \in st},
          err |-> UpdateError(st, subToUpdate),
          repoCalls |-> <<"GetSubscription", "UpdateSubscription">>,
          read |-> RepoReturn(<<CHOOSE r \in RepoGetSubscription(st, subToUpdate.ID) : TRUE>>)]

\* mutant: an id that is not in the table is handed on to the repository's
\* update, which inserts the row
ServiceUpdateSubscription_Upsert(st, subToUpdate) ==
    IF RepoGetSubscription(st, subToUpdate.ID) = {}
    THEN [store |-> st \cup {subToUpdate}, err |-> NoError,
          repoCalls |-> <<"GetSubscription", "UpdateSubscription">>,
          read |-> [rows |-> <<>>, err |-> ErrNotFound]]
    ELSE LET existingSubDAO == CHOOSE r \in RepoGetSubscription(st, subToUpdate.ID) : TRUE
             finalSubDAO == FinalSubDAO(existingSubDAO, subToUpdate)
         IN  [store |-> RepoUpdateSubscription(st, finalSubDAO),
              err |-> UpdateError(st, finalSubDAO),
              repoCalls |-> <<"GetSubscription", "UpdateSubscription">>,
              read |-> RepoReturn(<<existingSubDAO>>)]

\* SubscriptionService.UpdateSubscription: the table after the call, the
\* error returned, the repository methods called and what GetSubscription
\* returned
ServiceUpdateSubscription(st, subToUpdate) ==
    IF RepoGetSubscription(st, subToUpdate.ID) = {}
    THEN [store |-> st, err |-> ErrNotFound, repoCalls |-> <<"GetSubscription">>,
          read |-> [rows |-> <<>>, err |-> ErrNotFound]]
    ELSE LET existingSubDAO == CHOOSE r \in RepoGetSubscription(st, subToUpdate.ID) : TRUE
             finalSubDAO == FinalSubDAO(existingSubDAO, subToUpdate)
         IN  [store |-> RepoUpdateSubscription(st, finalSubDAO),
              err |-> UpdateError(st, finalSubDAO),
              repoCalls |-> <<"GetSubscription", "UpdateSubscription">>,
              read |-> RepoReturn(<<existingSubDAO>>)]

\* SubscriptionRepository.DeleteSubscription: the error of the statement
DeleteError(st, id) == IF id \in StoredIds(st) THEN NoError ELSE ErrNotFoundDelete

\* the bodies of the create requests: every combination of valid fields with
\* any price, and a valid request with one fault
CreateRequests ==
    {CreateSubscriptionRequest("json", n, p, u, MonthParam(sd), ed) :
        n \in ServiceNames, p \in Prices, u \in UserIDs, sd \in ApiMonths,
        ed \in {MissingParam} \cup {MonthParam(m) : m \in ApiMonths}}
    \cup {CreateSubscriptionRequest(b, n, MaxPrice, u, sd, ed) :
            b \in {"json", "not json"}, n \in {"", "Netflix"},
            u \in {"", "not-a-uuid", "u1"},
            sd \in {MonthParam(FirstMonth), MalformedParam, MissingParam},
            ed \in {MissingParam, MalformedParam}}

\* the update requests: every id the table can hold and an id that is no
\* UUID, with the bodies of the create requests less the user, and an
\* update of the first id to another price
UpdateRequests ==
    {UpdateSubscriptionRequest(id, r.Body, r.ServiceName, r.Price, r.StartDate, r.EndDate) :
        id \in {IdParam(i) : i \in ApiIds} \cup {MalformedId},
        r \in {c \in CreateRequests : c.UserID = "u1"}}
    \cup {UpdateSubscriptionRequest(IdParam(1), "json", "Spotify", 1,
                                    MonthParam(FirstMonth), MissingParam)}

DeleteRequests ==
    {DeleteSubscriptionRequest(id) : id \in {IdParam(i) : i \in ApiIds} \cup {MalformedId}}

\* a handler answers s.handleError(w, r, apperrors.NewBadRequest(...)) before
\* it calls the service
ApiReject(req, handler) ==
    /\ request' = req
    /\ response' = [status |-> Code(ErrBadRequest), total_cost |-> 0]
    /\ serviceCalled' = FALSE
    /\ dbFailed' = FALSE
    /\ filter' = NoFilter
    /\ repoResult' = NoRepoCall
    /\ result' = NoResult
    /\ logged' = <<>>
    /\ pc' = handler
    /\ UNCHANGED <<store, calls, proc>>

\* a handler answers after the service call whose outcome is out = [store,
\* err, repoCalls, read]
ApiServe(req, handler, out, okStatus) ==
    /\ request' = req
    /\ response' = [status |-> IF out.err = NoError THEN okStatus ELSE Code(out.err),
                    total_cost |-> 0]
    /\ serviceCalled' = TRUE
    /\ dbFailed' = FALSE
    /\ filter' = NoFilter
    /\ repoResult' = out.read
    /\ result' = [totalCost |-> 0, err |-> out.err]
    /\ logged' = out.repoCalls
    /\ store' = out.store
    /\ pc' = handler
    /\ UNCHANGED <<calls, proc>>

\* SubscriptionService.CreateSubscription on a subscription without id
ServiceCreateSubscription(st, subDomain, newID) ==
    LET subDao == [subDomain EXCEPT !.ID = newID]
    IN  [store |-> RepoCreateSubscription(st, subDao), err |-> InsertError(st, subDao),
         repoCalls |-> <<"CreateSubscription">>, read |-> NoRepoCall]

\* SubscriptionHandler.CreateSubscription
HandlerCreateSubscription ==
    /\ pc = "idle"
    /\ \E req \in CreateRequests :
         IF req.Body # "json" \/ ~ValidateCreateRequest(req)
         THEN ApiReject(req, "CreateSubscription")
         ELSE \E newID \in ApiIds \ StoredIds(store) :
                ApiServe(req, "CreateSubscription",
                         ServiceCreateSubscription(store, ToDomainFromDTO(req), newID), 201)

\* SubscriptionHandler.UpdateSubscription
HandlerUpdateSubscription ==
    /\ pc = "idle"
    /\ \E req \in UpdateRequests :
         IF ~IsUUID(req.ID) \/ req.Body # "json" \/ ~ValidateUpdateRequest(req)
         THEN ApiReject(req, "UpdateSubscription")
         ELSE ApiServe(req, "UpdateSubscription",
                       ServiceUpdateSubscription(store, ToDomainFromUpdateDTO(req)), 200)

\* SubscriptionService.DeleteSubscription
ServiceDeleteSubscription(st, id) ==
    [store |-> RepoDeleteSubscription(st, id), err |-> DeleteError(st, id),
     repoCalls |-> <<"DeleteSubscription">>, read |-> NoRepoCall]

\* SubscriptionHandler.DeleteSubscription
HandlerDeleteSubscription ==
    /\ pc = "idle"
    /\ \E req \in DeleteRequests :
         IF ~IsUUID(req.ID)
         THEN ApiReject(req, "DeleteSubscription")
         ELSE ApiServe(req, "DeleteSubscription",
                       ServiceDeleteSubscription(store, req.ID.id), 204)

\* GET /subscriptions/{id}
GetSubscriptionRequest(id) == [op |-> "get", ID |-> id]

GetRequests ==
    {GetSubscriptionRequest(id) : id \in {IdParam(i) : i \in ApiIds} \cup {MalformedId}}

\* SubscriptionService.GetSubscription
ServiceGetSubscription(st, id) ==
    IF RepoGetSubscription(st, id) = {}
    THEN [store |-> st, err |-> ErrNotFound, repoCalls |-> <<"GetSubscription">>,
          read |-> [rows |-> <<>>, err |-> ErrNotFound]]
    ELSE [store |-> st, err |-> NoError, repoCalls |-> <<"GetSubscription">>,
          read |-> RepoReturn(<<CHOOSE r \in RepoGetSubscription(st, id) : TRUE>>)]

\* SubscriptionHandler.GetSubscription
HandlerGetSubscription ==
    /\ pc = "idle"
    /\ \E req \in GetRequests :
         IF ~IsUUID(req.ID)
         THEN ApiReject(req, "GetSubscription")
         ELSE ApiServe(req, "GetSubscription", ServiceGetSubscription(store, req.ID.id), 200)

\* a query parameter read with utils.ParseIntOrDefault: the text of an
\* integer, or a text strconv.Atoi rejects (the empty text of a parameter
\* that is not given among them)
IntParam(n) == [text |-> "int", n |-> n]

NotIntParam == [text |-> "abc", n |-> 0]

NoIntParam == [text |-> "", n |-> 0]

\* utils.ParseIntOrDefault(s, defaultValue)
ParseIntOrDefault(param, defaultValue) ==
    IF param.text = "int" THEN param.n ELSE defaultValue

\* utils.ParseBoolPointer(s): <<>> is nil
ParseBoolPointer(str) ==
    IF str = "1" THEN <<TRUE>> ELSE IF str = "0" THEN <<FALSE>> ELSE <<>>

DefaultLimit == 10

MaxLimit == 100

\* GET /subscriptions with its query parameters
ListSubscriptionsRequest(userID, minPrice, maxPrice, startDate, hasEndDate, limit, offset) ==
    [op |-> "list", UserID |-> userID, ServiceName |-> "", MinPrice |-> minPrice,
     MaxPrice |-> maxPrice, StartDate |-> startDate, EndDate |-> MissingParam,
     HasEndDate |-> hasEndDate, Limit |-> limit, Offset |-> offset]

\* dto.SubscriptionFilter as the handler fills it from the query
SubscriptionFilter(req) ==
    [UserID |-> req.UserID, ServiceName |-> req.ServiceName,
     StartDate |-> req.StartDate, EndDate |-> req.EndDate,
     MinPrice |-> ParseIntOrDefault(req.MinPrice, 0),
     MaxPrice |-> ParseIntOrDefault(req.MaxPrice, 0),
     HasEndDate |-> ParseBoolPointer(req.HasEndDate),
     Limit |-> ParseIntOrDefault(req.Limit, DefaultLimit),
     Offset |-> ParseIntOrDefault(req.Offset, 0)]

\* mutant: limit has no upper bound
ValidateSubscriptionFilter_NoMaxLimit(f) ==
    /\ f.UserID = "" \/ IsUUID4(f.UserID)
    /\ f.MinPrice = 0 \/ f.MinPrice >= 0
    /\ f.MaxPrice = 0 \/ (f.MaxPrice >= 0 /\ f.MaxPrice >= f.MinPrice)
    /\ IsOptionalMonthText(f.StartDate)
    /\ IsOptionalMonthText(f.EndDate)
    /\ f.Limit >= 0
    /\ f.Offset >= 0

\* validator.ValidateStruct(filter) on a dto.SubscriptionFilter
ValidateSubscriptionFilter(f) ==
    /\ f.UserID = "" \/ IsUUID4(f.UserID)
    /\ f.MinPrice = 0 \/ f.MinPrice >= 0
    /\ f.MaxPrice = 0 \/ (f.MaxPrice >= 0 /\ f.MaxPrice >= f.MinPrice)
    /\ IsOptionalMonthText(f.StartDate)
    /\ IsOptionalMonthText(f.EndDate)
    /\ f.Limit >= 0 /\ f.Limit <= MaxLimit
    /\ f.Offset >= 0

\* the WHERE clause of ListSubscriptions, for a filter without start_date
\* and end_date
MatchesListFilter(row, f) ==
    /\ f.UserID # "" => row.UserID = f.UserID
    /\ f.ServiceName # "" => row.ServiceName = f.ServiceName
    /\ f.MinPrice > 0 => row.Price >= f.MinPrice
    /\ f.MaxPrice > 0 => row.Price <= f.MaxPrice
    /\ f.HasEndDate = <<TRUE>> => row.EndDate # Nil
    /\ f.HasEndDate = <<FALSE>> => row.EndDate = Nil

\* ORDER BY start_date DESC: the orders the selected rows can come in
OrderedByStartDateDesc(S) ==
    {l \in Orderings(S) : \A i, j \in 1 .. Len(l) : i < j => l[i].StartDate >= l[j].StartDate}

\* LIMIT f.Limit OFFSET f.Offset
LimitOffset(l, f) ==
    SubSeq(l, f.Offset + 1, IF f.Offset + f.Limit < Len(l) THEN f.Offset + f.Limit ELSE Len(l))

\* SubscriptionService.ListSubscriptions, the query returning the rows
ServiceListSubscriptions(st, rows) ==
    [store |-> st, err |-> NoError, repoCalls |-> <<"ListSubscriptions">>,
     read |-> RepoReturn(rows)]

\* the list requests: requests the validator accepts, without start_date
\* and end_date filters, and requests with one parameter it rejects
ListRequests ==
    {ListSubscriptionsRequest(u, NoIntParam, NoIntParam, MissingParam, h, l, o) :
        u \in {"", "u1"}, h \in {"", "1"},
        l \in {NoIntParam, NotIntParam, IntParam(1), IntParam(MaxLimit)},
        o \in {NoIntParam, IntParam(1)}}
    \cup {ListSubscriptionsRequest("u1", IntParam(MaxPrice), IntParam(MaxPrice), MissingParam,
                                   "0", NoIntParam, NoIntParam)}
    \cup {ListSubscriptionsRequest("", NoIntParam, NoIntParam, MissingParam, "", l, NoIntParam) :
            l \in {IntParam(MaxLimit + 1), IntParam(2 * MaxLimit), IntParam(0 - 1)}}
    \cup {ListSubscriptionsRequest("not-a-uuid", NoIntParam, NoIntParam, MissingParam, "",
                                   NoIntParam, NoIntParam),
          ListSubscriptionsRequest("", IntParam(0 - 1), NoIntParam, MissingParam, "",
                                   NoIntParam, NoIntParam),
          ListSubscriptionsRequest("", IntParam(MaxPrice), IntParam(1), MissingParam, "",
                                   NoIntParam, NoIntParam),
          ListSubscriptionsRequest("", NoIntParam, NoIntParam, MalformedParam, "",
                                   NoIntParam, NoIntParam),
          ListSubscriptionsRequest("", NoIntParam, NoIntParam, MissingParam, "",
                                   NoIntParam, IntParam(0 - 1))}

\* SubscriptionHandler.ListSubscriptions
HandlerListSubscriptions ==
    /\ pc = "idle"
    /\ \E req \in ListRequests :
         LET f == SubscriptionFilter(req)
         IN  IF ~ValidateSubscriptionFilter(f)
             THEN ApiReject(req, "ListSubscriptions")
             ELSE \E l \in OrderedByStartDateDesc({r \in store : MatchesListFilter(r, f)}) :
                    ApiServe(req, "ListSubscriptions",
                             ServiceListSubscriptions(store, LimitOffset(l, f)), 200)

NextApi ==
    \/ HandlerCreateSubscription
    \/ HandlerListSubscriptions
    \/ HandlerGetSubscription
    \/ HandlerUpdateSubscription
    \/ HandlerDeleteSubscription
    \/ HandlerCalculateCost
    \/ NextRequest

SpecApi == Init /\ [][NextApi]_vars

----------------------------------------------------------------------------
(* SubscriptionService.CreateSubscription called with a domain.Subscription *)
(* of any id, as the callers of the service other than the HTTP handler    *)
(* (which leaves the id uuid.Nil) can                                       *)

\* the subscriptions handed to the service: without id or with an id the
\* table can hold, of either user, open-ended, ending in the start month or
\* ending the month before it starts
CallInputs ==
    {SubscriptionRow(id, u, "Netflix", MaxPrice, Date(FirstMonth + 1, 1), e) :
        id \in {UUIDNil} \cup ApiIds, u \in UserIDs,
        e \in {Nil, Ptr(Date(FirstMonth + 1, 1)), Ptr(Date(FirstMonth, 1))}}

\* SubscriptionService.CreateSubscription(ctx, subDomain), with uuid.New()
\* drawing an id that is not in the table
CallCreateSubscription ==
    /\ pc = "idle"
    /\ \E subDomain \in CallInputs :
         \E id \in (IF subDomain.ID = UUIDNil THEN ApiIds \ StoredIds(store)
                                                 ELSE {subDomain.ID}) :
           LET out == ServiceCreateSubscription(store, subDomain, id)
           IN  /\ store' = out.store
               /\ request' = [op |-> "create", ID |-> subDomain.ID, Sub |-> subDomain]
               /\ result' = [totalCost |-> 0, err |-> out.err]
               /\ response' = NoResponse
               /\ dbFailed' = FALSE
               /\ serviceCalled' = TRUE
               /\ filter' = NoFilter
               /\ repoResult' = NoRepoCall
               /\ logged' = out.repoCalls
               /\ pc' = "CreateSubscription"
               /\ UNCHANGED <<calls, proc>>

NextCreate ==
    \/ CallCreateSubscription
    \/ NextRequest

SpecCreate == Init /\ [][NextCreate]_vars

----------------------------------------------------------------------------
(* Updates and deletes of the same rows in goroutines of their own:        *)
(* SubscriptionService.UpdateSubscription is the statement of              *)
(* GetSubscription and then the statement of UpdateSubscription, with the  *)
(* statements of the other goroutines in between; each statement is atomic *)

\* the table the goroutines start on
RaceRows ==
    {SubscriptionRow(1, "u1", "Netflix", MaxPrice, Date(FirstMonth, 1), Nil),
     SubscriptionRow(2, "u2", "Netflix", MaxPrice, Date(FirstMonth, 1), Nil)}

InitRace ==
    /\ store = RaceRows
    /\ request = NoRequest
    /\ response = NoResponse
    /\ dbFailed = FALSE
    /\ serviceCalled = FALSE
    /\ filter = NoFilter
    /\ repoResult = NoRepoCall
    /\ result = NoResult
    /\ logged = <<>>
    /\ calls = [p \in Procs |->
                   [pc |-> "idle", op |-> "none", ID |-> UUIDNil, subToUpdate |-> <<>>,
                    existingSubDAO |-> <<>>, err |-> NoError]]
    /\ proc = [pc |-> "serving"]
    /\ pc = "idle"

\* goroutine p enters UpdateSubscription: s.repo.GetSubscription returns the
\* row, or the not-found error, which the service returns.  subToUpdate is
\* one of two updates that differ in each of the four fields, or one the
\* CHECK constraint rejects
UpdateRead(p) ==
    /\ calls[p].pc = "idle"
    /\ \E subToUpdate \in
            {SubscriptionRow(id, "", f[1], f[2], f[3], f[4]) :
                id \in {1, 2},
                f \in {<<"Spotify", 1, Date(FirstMonth + 1, 1), Ptr(Date(FirstMonth + 1, 1))>>,
                       <<"Netflix", MaxPrice, Date(FirstMonth, 1), Ptr(Date(FirstMonth, 1))>>,
                       <<"Spotify", 1, Date(FirstMonth + 1, 1), Ptr(Date(FirstMonth, 1))>>}} :
         LET found == RepoGetSubscription(store, subToUpdate.ID)
         IN  calls' = [calls EXCEPT ![p] =
                IF found = {}
                THEN [pc |-> "returned", op |-> "update", ID |-> subToUpdate.ID,
                      subToUpdate |-> <<subToUpdate>>, existingSubDAO |-> <<>>,
                      err |-> ErrNotFound]
                ELSE [pc |-> "read", op |-> "update", ID |-> subToUpdate.ID,
                      subToUpdate |-> <<subToUpdate>>,
                      existingSubDAO |-> <<CHOOSE r \in found : TRUE>>,
                      err |-> NoError]]
    /\ UNCHANGED <<store, request, response, dbFailed, serviceCalled, filter, repoResult,
                   result, logged, proc, pc>>

\* goroutine p builds finalSubDAO from the row it read and
\* s.repo.UpdateSubscription runs its statement on the table as it is now
UpdateWrite(p) ==
    /\ calls[p].pc = "read"
    /\ LET finalSubDAO == FinalSubDAO(calls[p].existingSubDAO[1], calls[p].subToUpdate[1])
       IN  /\ store' = RepoUpdateSubscription(store, finalSubDAO)
           /\ calls' = [calls EXCEPT ![p].pc = "returned",
                                      ![p].err = UpdateError(store, finalSubDAO)]
    /\ UNCHANGED <<request, response, dbFailed, serviceCalled, filter, repoResult,
                   result, logged, proc, pc>>

\* goroutine p runs DeleteSubscription
DeleteCall(p) ==
    /\ calls[p].pc = "idle"
    /\ \E id \in {1, 2} :
         /\ store' = RepoDeleteSubscription(store, id)
         /\ calls' = [calls EXCEPT ![p] =
                         [pc |-> "returned", op |-> "delete", ID |-> id,
                          subToUpdate |-> <<>>, existingSubDAO |-> <<>>,
                          err |-> DeleteError(store, id)]]
    /\ UNCHANGED <<request, response, dbFailed, serviceCalled, filter, repoResult,
                   result, logged, proc, pc>>

NextRace ==
    \/ \E p \in Procs : UpdateRead(p)
    \/ \E p \in Procs : UpdateWrite(p)
    \/ \E p \in Procs : DeleteCall(p)

SpecRace == InitRace /\ [][NextRace]_vars

----------------------------------------------------------------------------
(* CalculateCost called for a period and for the two parts of it, on the   *)
(* same rows: periods [a, c], [a, b] and [b + 1 month, c], for any months  *)
(* a, b and c, reversed periods included                                   *)

\* the repository returns one row of any day of the month, the CHECK
\* constraint not assumed, or up to two month-aligned rows of the table
InitPeriods ==
    /\ store = {}
    /\ request = NoRequest
    /\ response = NoResponse
    /\ dbFailed = FALSE
    /\ serviceCalled = FALSE
    /\ filter = NoFilter
    /\ result = NoResult
    /\ logged = <<>>
    /\ proc = [pc |-> "serving"]
    /\ pc = "idle"
    /\ \E l \in {<<>>} \cup {<<r>> : r \in RowsOver(Dates)}
                      \cup {<<r, q>> : r \in StoredRowsOver(MonthStarts),
                                       q \in StoredRowsOver(MonthStarts)} :
       \E a \in Months, b \in Months, c \in Months :
          /\ repoResult = RepoReturn(l)
          /\ calls = [k \in 1 .. 3 |->
                         [pc |-> "called",
                          filter |-> <<CostFilter("u1", "", ParseMonth(a), ParseMonth(c)),
                                       CostFilter("u1", "", ParseMonth(a), ParseMonth(b)),
                                       CostFilter("u1", "", ParseMonth(b + 1), ParseMonth(c))>>[k],
                          seen |-> {}, failed |-> FALSE, repo |-> RepoReturn(l),
                          result |-> NoResult]]

\* the k-th call of CalculateCost runs, after the calls before it
CallCalculateCost(k) ==
    /\ calls[k].pc = "called"
    /\ \A j \in 1 .. 3 : j < k => calls[j].pc = "returned"
    /\ LET r == CalculateCost(calls[k].repo, calls[k].filter)
       IN  /\ calls' = [calls EXCEPT ![k].pc = "returned",
                                      ![k].result = [totalCost |-> r.totalCost, err |-> r.err]]
           /\ result' = [totalCost |-> r.totalCost, err |-> r.err]
           /\ logged' = r.logged
    /\ filter' = calls[k].filter
    /\ pc' = "returned"
    /\ UNCHANGED <<store, request, response, dbFailed, serviceCalled, repoResult, proc>>

NextPeriods == \E k \in 1 .. 3 : CallCalculateCost(k)

SpecPeriods == InitPeriods /\ [][NextPeriods]_vars

----------------------------------------------------------------------------
(* main (cmd/app/main.go) from the construction of httpServer on: the      *)
(* goroutine running ListenAndServe, signal.NotifyContext, the wait for    *)
(* the interrupt and httpServer.Shutdown.  The clock counts the seconds    *)
(* of shutdownCtx.                                                          *)

\* context.WithTimeout(context.Background(), 10*time.Second)
ShutdownTimeout == 10

\* main has built httpServer; no signal handler is registered yet, so the Go
\* runtime ends the process on SIGINT
InitMain ==
    /\ store = {}
    /\ request = NoRequest
    /\ response = NoResponse
    /\ dbFailed = FALSE
    /\ serviceCalled = FALSE
    /\ filter = NoFilter
    /\ repoResult = NoRepoCall
    /\ result = NoResult
    /\ logged = <<>>
    /\ calls = NoCalls
    /\ proc = [pc |-> "main", main |-> "start", serve |-> "none", listenErr |-> "none",
               notify |-> FALSE, ctxDone |-> FALSE, interrupted |-> FALSE, active |-> 0,
               shutdownCalled |-> FALSE, elapsed |-> 0, shutdownErr |-> "none",
               fatal |-> "none", exit |-> "running"]
    /\ pc = "idle"

Running == proc.pc = "main" /\ proc.exit = "running"

MainUnchanged ==
    UNCHANGED <<store, request, response, dbFailed, serviceCalled, filter,
                repoResult, result, logged, calls, pc>>

\* go func() { ... httpServer.ListenAndServe() ... }()
MainGo ==
    /\ Running
    /\ proc.main = "start"
    /\ proc' = [proc EXCEPT !.main = "spawned", !.serve = "starting"]
    /\ MainUnchanged

\* ctx, stop := signal.NotifyContext(context.Background(), os.Interrupt)
MainNotifyContext ==
    /\ Running
    /\ proc.main = "spawned"
    /\ proc' = [proc EXCEPT !.main = "waiting", !.notify = TRUE]
    /\ MainUnchanged

\* the process is sent SIGINT: the context of signal.NotifyContext is
\* cancelled, or, no handler being registered, the runtime ends the process
Interrupt ==
    /\ Running
    /\ proc' = IF proc.notify
               THEN [proc EXCEPT !.interrupted = TRUE, !.ctxDone = TRUE]
               ELSE [proc EXCEPT !.interrupted = TRUE, !.exit = "killed by SIGINT"]
    /\ MainUnchanged

\* <-ctx.Done() returns; shutdownCtx is created and httpServer.Shutdown is
\* called, which closes the listeners
MainShutdown ==
    /\ Running
    /\ proc.main = "waiting"
    /\ proc.ctxDone
    /\ proc' = [proc EXCEPT !.main = "shutdown", !.shutdownCalled = TRUE, !.elapsed = 0]
    /\ MainUnchanged

\* a second of shutdownCtx passes while Shutdown waits for the connections
ShutdownTick ==
    /\ Running
    /\ proc.main = "shutdown"
    /\ proc.elapsed < ShutdownTimeout
    /\ proc' = [proc EXCEPT !.elapsed = @ + 1]
    /\ MainUnchanged

\* httpServer.Shutdown(shutdownCtx) returns: nil once no connection is
\* active, and main returns; the error of shutdownCtx once it has expired,
\* and logger.Fatal ends the process
ShutdownReturns ==
    /\ Running
    /\ proc.main = "shutdown"
    /\ \/ /\ proc.active = 0
          /\ proc' = [proc EXCEPT !.main = "returned", !.shutdownErr = "nil",
                                  !.exit = "exit 0"]
       \/ /\ proc.active > 0
          /\ proc.elapsed = ShutdownTimeout
          /\ proc' = [proc EXCEPT !.shutdownErr = "context deadline exceeded",
                                  !.fatal = "HTTP server shutdown error",
                                  !.exit = "exit 1"]
    /\ MainUnchanged

\* mutant: any error of ListenAndServe is fatal
ServeReturns_AlwaysFatal ==
    /\ Running
    /\ proc.serve \in {"starting", "listening"}
    /\ proc.shutdownCalled
    /\ proc' = [proc EXCEPT !.serve = "returned", !.listenErr = "http.ErrServerClosed",
                            !.fatal = "ListenAndServe error", !.exit = "exit 1"]
    /\ MainUnchanged

\* httpServer.ListenAndServe() returns http.ErrServerClosed after Shutdown
\* was called: err != http.ErrServerClosed is false and the goroutine ends
ServeReturns ==
    /\ Running
    /\ proc.serve \in {"starting", "listening"}
    /\ proc.shutdownCalled
    /\ proc' = [proc EXCEPT !.serve = "returned", !.listenErr = "http.ErrServerClosed"]
    /\ MainUnchanged

\* httpServer.ListenAndServe() listens on :8080, or returns the error of
\* net.Listen, which is fatal
ServeListen ==
    /\ Running
    /\ proc.serve = "starting"
    /\ ~proc.shutdownCalled
    /\ \/ proc' = [proc EXCEPT !.serve = "listening"]
       \/ proc' = [proc EXCEPT !.serve = "returned", !.listenErr = "listen tcp :8080",
                               !.fatal = "ListenAndServe error", !.exit = "exit 1"]
    /\ MainUnchanged

\* the server accepts a connection and starts serving its request
RequestBegins ==
    /\ Running
    /\ proc.serve = "listening"
    /\ ~proc.shutdownCalled
    /\ proc.active < MaxActive
    /\ proc' = [proc EXCEPT !.active = @ + 1]
    /\ MainUnchanged

\* a request in flight is answered and its connection becomes idle
RequestEnds ==
    /\ Running
    /\ proc.active > 0
    /\ proc' = [proc EXCEPT !.active = @ - 1]
    /\ MainUnchanged

NextMain ==
    \/ MainGo
    \/ MainNotifyContext
    \/ Interrupt
    \/ MainShutdown
    \/ ShutdownTick
    \/ ShutdownReturns
    \/ ServeReturns
    \/ ServeListen
    \/ RequestBegins
    \/ RequestEnds

\* the main goroutine is scheduled and the clock of shutdownCtx advances
SpecMain ==
    /\ InitMain /\ [][NextMain]_vars
    /\ WF_vars(MainGo \/ MainNotifyContext \/ MainShutdown \/ ShutdownReturns)
    /\ WF_vars(ShutdownTick)

----------------------------------------------------------------------------
(* repository.ConnectDB as main calls it, with context.Background(): the   *)
(* clock counts seconds from the call; it advances while the goroutine is  *)
(* blocked in the select or in PingContext, and the database comes up and  *)
(* goes down at any time                                                    *)

\* ctx, cancel := context.WithTimeout(ctx, 30*time.Second)
ConnectTimeout == 30

\* ticker := time.NewTicker(2 * time.Second)
TickInterval == 2

\* the drivers registered with database/sql: _ "github.com/jackc/pgx/v5/stdlib"
Drivers == {"pgx"}

InitConnect ==
    /\ store = {}
    /\ request = NoRequest
    /\ response = NoResponse
    /\ dbFailed = FALSE
    /\ serviceCalled = FALSE
    /\ filter = NoFilter
    /\ repoResult = NoRepoCall
    /\ result = NoResult
    /\ logged = <<>>
    /\ calls = NoCalls
    /\ \E up \in BOOLEAN :
          proc = [pc |-> "ConnectDB", at |-> "sql.Open", now |-> 0, dbUp |-> up,
                  tickReady |-> FALSE, tickAt |-> 0, pingTick |-> 0,
                  failedPings |-> FALSE, pingOK |-> FALSE, ret |-> "none"]
    /\ pc = "idle"

Connecting == proc.pc = "ConnectDB" /\ proc.ret = "none"

\* db, err := sql.Open("pgx", connStr): an error for a driver that is not
\* registered; then the context with its deadline and the ticker are made
SqlOpen ==
    /\ Connecting
    /\ proc.at = "sql.Open"
    /\ proc' = IF "pgx" \in Drivers
               THEN [proc EXCEPT !.at = "select"]
               ELSE [proc EXCEPT !.at = "returned", !.ret = "failed to open DB"]
    /\ MainUnchanged

\* case <-ctx.Done(): the deadline has passed
SelectDone ==
    /\ Connecting
    /\ proc.at = "select"
    /\ proc.now >= ConnectTimeout
    /\ proc' = [proc EXCEPT !.at = "returned", !.ret = "timeout"]
    /\ MainUnchanged

\* case <-ticker.C: the tick in the channel is taken and PingContext starts
SelectTick ==
    /\ Connecting
    /\ proc.at = "select"
    /\ proc.tickReady
    /\ proc' = [proc EXCEPT !.at = "PingContext", !.tickReady = FALSE,
                            !.pingTick = proc.tickAt]
    /\ MainUnchanged

\* db.PingContext(ctx) returns nil: the database answered before the
\* deadline of ctx; ConnectDB returns db, nil
PingSucceeds ==
    /\ Connecting
    /\ proc.at = "PingContext"
    /\ proc.dbUp
    /\ proc.now < ConnectTimeout
    /\ proc' = [proc EXCEPT !.at = "returned", !.pingOK = TRUE, !.ret = "db"]
    /\ MainUnchanged

\* mutant: the error of a failed ping is returned
PingFails_Returns ==
    /\ Connecting
    /\ proc.at = "PingContext"
    /\ proc' = [proc EXCEPT !.at = "returned", !.failedPings = TRUE,
                            !.ret = "failed to ping DB"]
    /\ MainUnchanged

\* db.PingContext(ctx) returns an error, that of ctx once the deadline has
\* passed: the loop goes on to the next select
PingFails ==
    /\ Connecting
    /\ proc.at = "PingContext"
    /\ proc' = [proc EXCEPT !.at = "select", !.failedPings = TRUE]
    /\ MainUnchanged

\* a second passes while the goroutine is blocked: in the select with no
\* tick in the channel, or in PingContext, before the deadline.  The ticker
\* sends every TickInterval seconds into a channel of capacity 1 and drops
\* the tick when the channel is full
ClockTick ==
    /\ Connecting
    /\ proc.now < ConnectTimeout
    /\ \/ proc.at = "select" /\ ~proc.tickReady
       \/ proc.at = "PingContext"
    /\ LET now == proc.now + 1
           fires == now % TickInterval = 0
       IN  proc' = [proc EXCEPT !.now = now,
                                !.tickReady = @ \/ fires,
                                !.tickAt = IF fires /\ ~proc.tickReady THEN now ELSE @]
    /\ MainUnchanged

\* the database comes up or goes down
DatabaseChanges ==
    /\ Connecting
    /\ proc' = [proc EXCEPT !.dbUp = ~@]
    /\ MainUnchanged

NextConnect ==
    \/ SqlOpen
    \/ SelectDone
    \/ SelectTick
    \/ PingSucceeds
    \/ PingFails
    \/ ClockTick
    \/ DatabaseChanges

\* the goroutine runs when it can and the clock advances while it is blocked
SpecConnect ==
    /\ InitConnect /\ [][NextConnect]_vars
    /\ WF_vars(SqlOpen \/ SelectDone \/ SelectTick \/ PingSucceeds \/ PingFails)
    /\ WF_vars(ClockTick)

----------------------------------------------------------------------------
(* The calendar months of the specification *)

CalMonth(t) == [year |-> MonthIndex(t) \div 12, month |-> (MonthIndex(t) % 12) + 1]

MonthLE(a, b) == a.year < b.year \/ (a.year = b.year /\ a.month <= b.month)

MonthLT(a, b) == MonthLE(a, b) /\ a # b

MaxMonth(a, b) == IF MonthLE(a, b) THEN b ELSE a

MinMonth(a, b) == IF MonthLE(a, b) THEN a ELSE b

monthsBetween(a, b) == (b.year - a.year) * 12 + (b.month - a.month) + 1

StartMonth(sub) == CalMonth(sub.StartDate)

EndMonth(sub) == CalMonth(Deref(sub.EndDate))

\* price * monthsBetween(overlapStart, overlapEnd), 0 without overlap
SpecContribution(sub, ps, pe) ==
    LET overlapStart == MaxMonth(StartMonth(sub), ps)
        overlapEnd == MinMonth(IF sub.EndDate # Nil THEN EndMonth(sub) ELSE pe, pe)
    IN  IF ~MonthLE(overlapStart, overlapEnd)
        THEN 0
        ELSE sub.Price * monthsBetween(overlapStart, overlapEnd)

RECURSIVE SpecTotal(_, _, _)
SpecTotal(subs, ps, pe) ==
    IF subs = <<>>
    THEN 0
    ELSE SpecContribution(Head(subs), ps, pe) + SpecTotal(Tail(subs), ps, pe)

PeriodStartMonth == CalMonth(filter.PeriodStart)

PeriodEndMonth == CalMonth(filter.PeriodEnd)

IsMonthAligned(sub) ==
    /\ sub.StartDate \in MonthStarts
    /\ sub.EndDate # Nil => Deref(sub.EndDate) \in MonthStarts

Returned == pc = "returned" /\ result.err = NoError

Rows == repoResult.rows

\* the total the loop computes for a list
TotalOf(subs, f) ==
    CostLoop(subs, 1, [totalCost |-> 0, logged |-> <<>>], f).totalCost

RemoveAt(subs, i) == SubSeq(subs, 1, i - 1) \o SubSeq(subs, i + 1, Len(subs))

----------------------------------------------------------------------------
(* Claims *)

\* C1: for month-aligned rows and periodStart <= periodEnd, CalculateCost
\* returns the sum over the rows of price * monthsBetween(overlapStart,
\* overlapEnd), a row without overlap contributing 0.
C1_TotalIsSumOfOverlaps ==
    (/\ Returned
     /\ MonthLE(PeriodStartMonth, PeriodEndMonth)
     /\ \A i \in 1 .. Len(Rows) : IsMonthAligned(Rows[i]))
    => result.totalCost = SpecTotal(Rows, PeriodStartMonth, PeriodEndMonth)

\* two month-aligned rows, one clipped by the period and one outside it
C1_Witness ==
    /\ Returned
    /\ MonthLT(PeriodStartMonth, PeriodEndMonth)
    /\ Len(Rows) = 2
    /\ \A i \in 1 .. 2 : IsMonthAligned(Rows[i]) /\ Rows[i].Price > 0
    /\ Rows[1].EndDate = Nil /\ MonthLT(StartMonth(Rows[1]), PeriodStartMonth)
    /\ Rows[2].EndDate # Nil /\ MonthLT(EndMonth(Rows[2]), PeriodStartMonth)
    /\ result.totalCost = Rows[1].Price * monthsBetween(PeriodStartMonth, PeriodEndMonth)

\* C2: a period whose end month is earlier than its start month costs 0,
\* without error, whatever the rows.
C2_ReversedPeriodIsZero ==
    (Returned /\ MonthLT(PeriodEndMonth, PeriodStartMonth))
    => result.totalCost = 0

\* a reversed period two months apart over an open-ended row that started
\* before it and a closed row inside it
C2_Witness ==
    /\ Returned
    /\ monthsBetween(PeriodStartMonth, PeriodEndMonth) < 0
    /\ Len(Rows) = 2
    /\ Rows[1].Price > 0 /\ Rows[1].EndDate = Nil
    /\ MonthLE(StartMonth(Rows[1]), PeriodEndMonth)
    /\ Rows[2].Price > 0 /\ Rows[2].EndDate # Nil
    /\ MonthLT(PeriodEndMonth, StartMonth(Rows[2]))
    /\ MonthLT(EndMonth(Rows[2]), PeriodStartMonth)
    /\ result.totalCost = 0

\* C3: when every price is >= 0 the total is >= 0.
C3_NonNegativeTotal ==
    (Returned /\ \A i \in 1 .. Len(Rows) : Rows[i].Price >= 0)
    => result.totalCost >= 0

\* non-negative prices, one row billed and one row outside the period
C3_Witness ==
    /\ Returned
    /\ Len(Rows) = 2
    /\ \A i \in 1 .. 2 : Rows[i].Price > 0
    /\ \E i \in 1 .. 2 : logged[i].skipped
    /\ result.totalCost > 0

NonIntersecting(sub) ==
    \/ sub.EndDate # Nil /\ MonthLT(EndMonth(sub), PeriodStartMonth)
    \/ MonthLT(PeriodEndMonth, StartMonth(sub))

\* C5: a row whose end month is before the period start, or whose start
\* month is after the period end, is skipped, contributes 0 whatever its
\* price, and the total is the total of the list without it.
C5_NoOverlapContributesZero ==
    Returned =>
        \A i \in 1 .. Len(Rows) :
            NonIntersecting(Rows[i]) =>
                /\ logged[i].skipped
                /\ logged[i].cost_for_this_sub = 0
                /\ result.totalCost = TotalOf(RemoveAt(Rows, i), filter)

\* a priced row after the period next to a row that is billed
C5_Witness ==
    /\ Returned
    /\ MonthLE(PeriodStartMonth, PeriodEndMonth)
    /\ Len(Rows) = 2
    /\ NonIntersecting(Rows[1]) /\ Rows[1].Price > 0
    /\ MonthLT(PeriodEndMonth, StartMonth(Rows[1]))
    /\ ~logged[2].skipped
    /\ result.totalCost = logged[2].cost_for_this_sub
    /\ result.totalCost # 0

\* C6: an open-ended row that started in or before the period's first month
\* costs price * monthsBetween(periodStart, periodEnd); one that starts later
\* inside the period costs price * monthsBetween(startDate, periodEnd).
C6_OpenEndedClippedByPeriod ==
    (Returned /\ MonthLE(PeriodStartMonth, PeriodEndMonth)) =>
        \A i \in 1 .. Len(Rows) :
            Rows[i].EndDate = Nil =>
                /\ MonthLE(StartMonth(Rows[i]), PeriodStartMonth) =>
                    /\ ~logged[i].skipped
                    /\ logged[i].cost_for_this_sub =
                         Rows[i].Price * monthsBetween(PeriodStartMonth, PeriodEndMonth)
                /\ (/\ MonthLT(PeriodStartMonth, StartMonth(Rows[i]))
                    /\ MonthLE(StartMonth(Rows[i]), PeriodEndMonth)) =>
                    /\ ~logged[i].skipped
                    /\ logged[i].cost_for_this_sub =
                         Rows[i].Price * monthsBetween(StartMonth(Rows[i]), PeriodEndMonth)

\* an open-ended row that started before a two-month period, and one that
\* starts in its second month
C6_Witness ==
    /\ Returned
    /\ monthsBetween(PeriodStartMonth, PeriodEndMonth) = 2
    /\ Len(Rows) = 2
    /\ \A i \in 1 .. 2 : Rows[i].EndDate = Nil /\ Rows[i].Price > 0
    /\ MonthLT(StartMonth(Rows[1]), PeriodStartMonth)
    /\ StartMonth(Rows[2]) = PeriodEndMonth
    /\ logged[1].cost_for_this_sub = 2 * Rows[1].Price
    /\ logged[2].cost_for_this_sub = Rows[2].Price

\* C7: the boundary months are inclusive: a row that ends in the period's
\* last month is billed up to and including that month, and a row that ends
\* in the period's first month, or starts in its last month, is billed for
\* exactly 1 month (rows with endDate >= startDate).
C7_BoundaryMonthsInclusive ==
    (Returned /\ MonthLE(PeriodStartMonth, PeriodEndMonth)) =>
        \A i \in 1 .. Len(Rows) :
            CheckEndDate(Rows[i]) =>
                /\ (Rows[i].EndDate # Nil /\ EndMonth(Rows[i]) = PeriodEndMonth) =>
                    /\ ~logged[i].skipped
                    /\ logged[i].months_counted =
                         monthsBetween(MaxMonth(StartMonth(Rows[i]), PeriodStartMonth),
                                       PeriodEndMonth)
                /\ (Rows[i].EndDate # Nil /\ EndMonth(Rows[i]) = PeriodStartMonth) =>
                    /\ ~logged[i].skipped
                    /\ logged[i].months_counted = 1
                /\ StartMonth(Rows[i]) = PeriodEndMonth =>
                    /\ ~logged[i].skipped
                    /\ logged[i].months_counted = 1

\* a row that starts on a later day of the period's last month
C7_Witness ==
    /\ Returned
    /\ MonthLT(PeriodStartMonth, PeriodEndMonth)
    /\ Len(Rows) = 1
    /\ Rows[1].Price > 0
    /\ StartMonth(Rows[1]) = PeriodEndMonth
    /\ After(Rows[1].StartDate, filter.PeriodEnd)
    /\ Rows[1].EndDate # Nil /\ EndMonth(Rows[1]) = PeriodEndMonth
    /\ logged[1].months_counted = 1
    /\ result.totalCost = Rows[1].Price

\* C4: when the query succeeds and selects no row, the repository returns
\* the empty list without error, CalculateCost returns 0 and a nil error,
\* and the cost endpoint answers 200 with total_cost 0.
C4_EmptyListIsZeroAndSuccess ==
    (/\ pc = "CalculateCost"
     /\ serviceCalled
     /\ ~dbFailed
     /\ repoResult.rows = <<>>)
    => /\ repoResult.err = NoError
       /\ result = [totalCost |-> 0, err |-> NoError]
       /\ response = [status |-> 200, total_cost |-> 0]

\* the user of the request has a row in the table, in a service the request
\* does not ask for
C4_Witness ==
    /\ pc = "CalculateCost"
    /\ serviceCalled
    /\ ~dbFailed
    /\ \E r \in store :
          /\ r.UserID = request.UserID
          /\ r.ServiceName # request.ServiceName
          /\ r.StartDate <= filter.PeriodEnd
          /\ r.EndDate = Nil
    /\ repoResult = [rows |-> <<>>, err |-> NoError]
    /\ response = [status |-> 200, total_cost |-> 0]

\* a list of the rows of a set
RECURSIVE SeqOf(_)
SeqOf(S) == IF S = {} THEN <<>> ELSE LET x == CHOOSE y \in S : TRUE IN <<x>> \o SeqOf(S \ {x})

\* the total the cost endpoint computes over a table
EndpointTotal(st, f) ==
    CalculateCost([rows |-> SeqOf(ListForCostCalculation(st, f)), err |-> NoError], f).totalCost

WithStartDay(row, d) == [row EXCEPT !.StartDate = Date(MonthIndex(@), d)]

WithEndDay(row, d) == [row EXCEPT !.EndDate = Ptr(Date(MonthIndex(Deref(@)), d))]

\* C8: the total of a cost request does not change when the startDate or
\* the endDate of a stored row is replaced by another day of the same month
\* (endDate >= startDate kept).
C8_DayOfMonthNotSignificant ==
    (pc = "CalculateCost" /\ serviceCalled /\ ~dbFailed) =>
        \A r \in store : \A d \in Days :
            /\ CheckEndDate(WithStartDay(r, d)) =>
                  EndpointTotal((store \ {r}) \cup {WithStartDay(r, d)}, filter)
                      = response.total_cost
            /\ (r.EndDate # Nil /\ CheckEndDate(WithEndDay(r, d))) =>
                  EndpointTotal((store \ {r}) \cup {WithEndDay(r, d)}, filter)
                      = response.total_cost

ViolatesCheck(sub) == sub.EndDate # Nil /\ Before(Deref(sub.EndDate), sub.StartDate)

\* C9: a row whose endDate is earlier than its startDate does not make
\* CalculateCost fail; it is skipped and contributes 0.
C9_EndBeforeStartContributesZero ==
    (pc = "returned" /\ repoResult.err = NoError) =>
        /\ result.err = NoError
        /\ \A i \in 1 .. Len(Rows) :
              ViolatesCheck(Rows[i]) =>
                  /\ logged[i].skipped
                  /\ logged[i].cost_for_this_sub = 0
                  /\ result.totalCost = TotalOf(RemoveAt(Rows, i), filter)

\* a priced row that starts inside the period and ends before it starts,
\* next to a row that is billed
C9_Witness ==
    /\ Returned
    /\ Len(Rows) = 2
    /\ ViolatesCheck(Rows[2]) /\ Rows[2].Price > 0
    /\ MonthLE(PeriodStartMonth, StartMonth(Rows[2]))
    /\ MonthLE(StartMonth(Rows[2]), PeriodEndMonth)
    /\ MonthLE(PeriodStartMonth, EndMonth(Rows[2]))
    /\ logged[2].skipped
    /\ result.totalCost = logged[1].cost_for_this_sub
    /\ result.totalCost > 0

Permute(subs, p) == [i \in 1 .. Len(subs) |-> subs[p[i]]]

\* C10: the total of a list is the total of any prefix plus the total of the
\* rest, and every permutation of the list has the same total.
C10_AdditiveAndOrderIndependent ==
    Returned =>
        /\ \A k \in 0 .. Len(Rows) :
              result.totalCost =
                  TotalOf(SubSeq(Rows, 1, k), filter)
                      + TotalOf(SubSeq(Rows, k + 1, Len(Rows)), filter)
        /\ \A p \in Permutations(1 .. Len(Rows)) :
              TotalOf(Permute(Rows, p), filter) = result.totalCost

\* two rows with different non-zero costs
C10_Witness ==
    /\ Returned
    /\ Len(Rows) = 2
    /\ \A i \in 1 .. 2 : ~logged[i].skipped /\ logged[i].cost_for_this_sub > 0
    /\ logged[1].cost_for_this_sub # logged[2].cost_for_this_sub
    /\ result.totalCost = logged[1].cost_for_this_sub + logged[2].cost_for_this_sub

\* the steps of the cost calls of the goroutines
CostCallStep == \E p \in Procs : CallQuery(p) \/ CallLoop(p) \/ CallReturn(p)

\* a cost call that returned, its query not failed by the database
ReturnedCall(p) == calls[p].pc = "returned" /\ ~calls[p].failed

\* C11: no step of a cost call changes the table, whatever the other
\* goroutines do; a call that returns has the total of a call run alone on
\* the table its query read, so two calls with the same filter on the same
\* table return the same total.
C11_CostCallsArePure ==
    /\ [][CostCallStep => store' = store]_vars
    /\ [](\A p \in Procs :
            ReturnedCall(p) =>
                /\ calls[p].result.totalCost = EndpointTotal(calls[p].seen, calls[p].filter)
                /\ \A q \in Procs :
                     (/\ ReturnedCall(q)
                      /\ calls[q].filter = calls[p].filter
                      /\ calls[q].seen = calls[p].seen)
                     => calls[q].result.totalCost = calls[p].result.totalCost)

\* two calls with the same filter read the same two rows in different
\* orders, and both have returned; the table has not changed since
C11_Witness ==
    /\ ReturnedCall(1)
    /\ ReturnedCall(2)
    /\ calls[1].filter = calls[2].filter
    /\ calls[1].seen = store
    /\ calls[2].seen = store
    /\ Cardinality(store) = 2
    /\ calls[1].repo.rows # calls[2].repo.rows
    /\ calls[1].result.totalCost = calls[2].result.totalCost
    /\ calls[1].result.totalCost > 0

\* the rows of the user of filter f, of its service name when it has one
RowsOfUser(st, f) ==
    {r \in st : /\ r.UserID = f.UserID
                /\ f.ServiceName # "" => r.ServiceName = f.ServiceName}

\* the subscription is active in a month of the period of f
ActiveInPeriod(r, f) ==
    /\ MonthIndex(r.StartDate) <= MonthIndex(f.PeriodEnd)
    /\ r.EndDate = Nil \/ MonthIndex(Deref(r.EndDate)) >= MonthIndex(f.PeriodStart)

\* C12: the query returns every row of the user that is active in a month of
\* the period, and the total of the endpoint equals the total the loop
\* computes from all rows of the user.
C12_PreFilterNeverUnderFetches ==
    (pc = "CalculateCost" /\ serviceCalled /\ ~dbFailed) =>
        /\ \A r \in RowsOfUser(store, filter) :
              ActiveInPeriod(r, filter) =>
                  \E i \in 1 .. Len(repoResult.rows) : repoResult.rows[i] = r
        /\ response.total_cost =
              CalculateCost(RepoReturn(SeqOf(RowsOfUser(store, filter))), filter).totalCost

\* the rows of a list
RowSet(rows) == {rows[i] : i \in 1 .. Len(rows)}

\* C13: the total of a cost request of user U, with service name N when it
\* is given, is the total over U's rows (of name N) alone, so no row of
\* another user or of another name bears on it; the query returns rows of U
\* (and N) only, and without a service name every active row of U whatever
\* its name.
C13_TotalDependsOnUsersRowsOnly ==
    (pc = "CalculateCost" /\ serviceCalled /\ ~dbFailed) =>
        /\ response.total_cost = EndpointTotal(RowsOfUser(store, filter), filter)
        /\ RowSet(repoResult.rows) \subseteq RowsOfUser(store, filter)
        /\ filter.ServiceName = "" =>
              \A r \in store :
                  (r.UserID = filter.UserID /\ ActiveInPeriod(r, filter))
                  => r \in RowSet(repoResult.rows)

\* the table holds an active Netflix row of the user and an active row of
\* another user; the request names Netflix and the answer bills the user's
\* row alone
C13_Witness ==
    /\ pc = "CalculateCost"
    /\ response.status = 200
    /\ filter.ServiceName = "Netflix"
    /\ \E r1, r2 \in store :
          /\ r1.UserID = filter.UserID
          /\ r1.ServiceName = "Netflix"
          /\ r2.UserID # filter.UserID
          /\ r2.ServiceName = "Netflix"
          /\ ActiveInPeriod(r1, filter)
          /\ ActiveInPeriod(r2, filter)
          /\ repoResult.rows = <<r1>>
          /\ response.total_cost = EndpointTotal({r1}, filter)
          /\ response.total_cost > 0

\* a cost request the endpoint must refuse: user_id missing or no UUID, a
\* period bound missing or not MM-YYYY, or period_end in an earlier month
\* than period_start
IsInvalidCostRequest(req) ==
    \/ req.UserID \in {"", "not-a-uuid"}
    \/ req.PeriodStart \in {MissingParam, MalformedParam}
    \/ req.PeriodEnd \in {MissingParam, MalformedParam}
    \/ req.PeriodEnd.month < req.PeriodStart.month

\* C14: the cost endpoint answers 400 to every invalid request without
\* calling SubscriptionService.CalculateCost, and accepts a request whose
\* period_end equals its period_start.
C14_InvalidCostRequestRejected ==
    pc = "CalculateCost" =>
        /\ IsInvalidCostRequest(request) =>
              /\ response.status = 400
              /\ ~serviceCalled
              /\ result = NoResult
        /\ (/\ ~IsInvalidCostRequest(request)
            /\ request.PeriodEnd.month = request.PeriodStart.month) =>
              /\ serviceCalled
              /\ response.status # 400

\* the user has an active row, and the request with period_end one month
\* before period_start is answered 400 without a service call
C14_Witness ==
    /\ pc = "CalculateCost"
    /\ request.UserID \in UserIDs
    /\ request.PeriodStart = MonthParam(FirstMonth + 1)
    /\ request.PeriodEnd = MonthParam(FirstMonth)
    /\ \E r \in store : r.UserID = request.UserID /\ r.EndDate = Nil
    /\ response.status = 400
    /\ ~serviceCalled

\* C15: when the database fails the query of a cost calculation,
\* CalculateCost returns the repository's internal-server error with total
\* 0, never the sum over a part of the rows, and the endpoint answers 500.
C15_QueryFailureIsInternalError ==
    (pc = "CalculateCost" /\ dbFailed) =>
        /\ repoResult.err \in {ErrInternal, ErrInternalScan}
        /\ result = [totalCost |-> 0, err |-> repoResult.err]
        /\ response = [status |-> 500, total_cost |-> 0]

\* C16: a row with a negative price that overlaps the period never lowers
\* the total and never makes the total CalculateCost returns negative.
C16_NegativePriceGuarded ==
    Returned =>
        /\ result.totalCost >= 0
        /\ \A i \in 1 .. Len(Rows) :
              Rows[i].Price < 0 => result.totalCost >= TotalOf(RemoveAt(Rows, i), filter)

\* the request is a create or an update that reached the service with an
\* end date in an earlier month than its start date
EndsBeforeStart(req) ==
    /\ req.op \in {"create", "update"}
    /\ IsMonthText(req.StartDate)
    /\ IsMonthText(req.EndDate)
    /\ req.EndDate.month < req.StartDate.month

\* C17: every stored row has no end date or an end date not before its
\* start date, whatever creates, updates and deletes ran; a create or an
\* update with an end date before its start date ends with an error and
\* leaves the table as it was.
C17_EndDateNotBeforeStartDate ==
    /\ [](\A r \in store : r.EndDate = Nil \/ Deref(r.EndDate) >= r.StartDate)
    /\ [][(pc' \in {"CreateSubscription", "UpdateSubscription"} /\ EndsBeforeStart(request'))
            => /\ store' = store
               /\ response'.status >= 400
               /\ serviceCalled' => result'.err # NoError]_vars

\* an update of a stored row to an end date one month before its start date
\* was refused by the table's CHECK constraint
C17_Witness ==
    /\ pc = "UpdateSubscription"
    /\ serviceCalled
    /\ request.StartDate = MonthParam(FirstMonth + 1)
    /\ request.EndDate = MonthParam(FirstMonth)
    /\ request.ID.id \in StoredIds(store)
    /\ logged = <<"GetSubscription", "UpdateSubscription">>
    /\ result.err = ErrInternalUpdate
    /\ response.status = 500

\* C18: an update request, whatever it contains, leaves the id and the
\* userID of every stored row as they were, and neither adds nor removes an
\* id.
C18_IdAndUserIDImmutable ==
    [][pc' = "UpdateSubscription" =>
          /\ StoredIds(store') = StoredIds(store)
          /\ \A r \in store : \E r2 \in store' : r2.ID = r.ID /\ r2.UserID = r.UserID
          /\ Cardinality(store') = Cardinality(store)]_vars

\* a successful update of a row of user u2: the row has the fields of the
\* request and still the user it was created with
C18_Witness ==
    /\ pc = "UpdateSubscription"
    /\ result.err = NoError
    /\ response.status = 200
    /\ \E r \in store :
          /\ r.ID = request.ID.id
          /\ r.UserID = "u2"
          /\ r.ServiceName = request.ServiceName
          /\ r.Price = request.Price
          /\ r.StartDate = ParseMonth(request.StartDate.month)
          /\ r.EndDate = ParseEndDate(request.EndDate)

\* a create or update request whose fields other than the price are valid
ValidButForPrice(req) ==
    /\ req.op \in {"create", "update"}
    /\ req.Body = "json"
    /\ req.ServiceName \in ServiceNames
    /\ req.op = "create" => req.UserID \in UserIDs
    /\ req.op = "update" => req.ID.text = "uuid"
    /\ req.StartDate.text = "MM-YYYY"
    /\ req.EndDate = MissingParam \/ req.EndDate.text = "MM-YYYY"

\* C19: a create or update request with price 0 and otherwise valid fields
\* passes validation, and when the service stores it the row has price 0; a
\* request with a negative price is answered 400.
C19_ZeroPriceAccepted ==
    (pc \in {"CreateSubscription", "UpdateSubscription"} /\ ValidButForPrice(request)) =>
        /\ request.Price = 0 =>
              /\ serviceCalled
              /\ response.status # 400
              /\ result.err = NoError =>
                    \E r \in store : r.Price = 0 /\ r.ServiceName = request.ServiceName
        /\ request.Price < 0 => response.status = 400 /\ ~serviceCalled

\* C20: an update of an id that is not in the table returns the not-found
\* error of GetSubscription, does not call the repository's update, and
\* leaves the table as it was.
C20_UpdateOfMissingIdIsNotFound ==
    [][(/\ pc' = "UpdateSubscription"
        /\ serviceCalled'
        /\ request'.ID.id \notin StoredIds(store))
       => /\ store' = store
          /\ result'.err = ErrNotFound
          /\ logged' = <<"GetSubscription">>
          /\ response'.status = 404]_vars

\* the table holds a row, and an update of another id was answered 404
\* after GetSubscription alone
C20_Witness ==
    /\ pc = "UpdateSubscription"
    /\ serviceCalled
    /\ store # {}
    /\ request.ID.id \notin StoredIds(store)
    /\ result.err = ErrNotFound
    /\ logged = <<"GetSubscription">>
    /\ response.status = 404

\* the update request was served without error
UpdateSucceeded ==
    pc = "UpdateSubscription" /\ serviceCalled /\ result.err = NoError

\* the stored rows with the id of the update request
UpdatedRows == {r \in store : r.ID = request.ID.id}

\* C21: after a successful update the stored row of the request's id has the
\* service name, price, start date and end date of the request, and no end
\* date when the request has none, whatever end date the row had before.
C21_UpdateReplacesMutableFields ==
    UpdateSucceeded =>
        /\ Cardinality(UpdatedRows) = 1
        /\ \A r \in UpdatedRows :
              /\ r.ServiceName = request.ServiceName
              /\ r.Price = request.Price
              /\ r.StartDate = Date(request.StartDate.month, 1)
              /\ request.EndDate = MissingParam => r.EndDate = Nil
              /\ request.EndDate # MissingParam =>
                    r.EndDate = Ptr(Date(request.EndDate.month, 1))

\* a closed row was updated by a request without end_date that changes its
\* name, price and start date: the row is open-ended and has the new fields
C21_Witness ==
    /\ UpdateSucceeded
    /\ Len(repoResult.rows) = 1
    /\ repoResult.rows[1].EndDate # Nil
    /\ repoResult.rows[1].ServiceName # request.ServiceName
    /\ repoResult.rows[1].Price # request.Price
    /\ repoResult.rows[1].StartDate # Date(request.StartDate.month, 1)
    /\ request.EndDate = MissingParam
    /\ \E r \in UpdatedRows :
          /\ r.EndDate = Nil
          /\ r.ServiceName = request.ServiceName
          /\ r.Price = request.Price
          /\ r.UserID = repoResult.rows[1].UserID

\* the subscription the last create was called with
CreatedFrom(req) == req.Sub

ServesById(handlers) == pc' \in handlers /\ serviceCalled'

\* C23: a delete of a stored id succeeds and removes the row of that id and
\* no other; a delete of an id that is not stored returns not-found and
\* changes nothing; a get, update or delete of an id that is not stored, as
\* the id of a deleted row is, is answered 404; only a create adds an id.
C23_DeleteRemovesExactlyOne ==
    /\ [][ServesById({"DeleteSubscription"}) =>
            IF request'.ID.id \in StoredIds(store)
            THEN /\ result'.err = NoError
                 /\ response'.status = 204
                 /\ store' = {r \in store : r.ID # request'.ID.id}
                 /\ Cardinality(store') = Cardinality(store) - 1
            ELSE /\ result'.err = ErrNotFoundDelete
                 /\ response'.status = 404
                 /\ store' = store]_vars
    /\ [][(/\ ServesById({"GetSubscription", "UpdateSubscription", "DeleteSubscription"})
            /\ request'.ID.id \notin StoredIds(store))
           => /\ response'.status = 404
              /\ store' = store]_vars
    /\ [][pc' # "CreateSubscription" => StoredIds(store') \subseteq StoredIds(store)]_vars

\* one of two rows was deleted: the answer is 204, the id is gone and the
\* other row is still stored
C23_Witness ==
    /\ pc = "DeleteSubscription"
    /\ response.status = 204
    /\ result.err = NoError
    /\ request.ID.id \notin StoredIds(store)
    /\ Cardinality(store) = 1

\* the errors of the store that say a row was not found
NotFoundErrors == {ErrNotFound, ErrNotFoundUpdate, ErrNotFoundDelete}

\* C24: a request that ends with an error is answered with the one status
\* of that error, 400, 404, 409 or 500; a not-found of the store is
\* answered 404, and a request the database failed is answered 500.
C24_EveryErrorHasOneStatus ==
    pc \in {"CreateSubscription", "ListSubscriptions", "GetSubscription",
            "UpdateSubscription", "DeleteSubscription", "CalculateCost"} =>
        /\ result.err # NoError =>
              /\ response.status = Code(result.err)
              /\ response.status \in {400, 404, 409, 500}
        /\ result.err \in NotFoundErrors => response.status = 404
        /\ (result.err # NoError /\ result.err \notin NotFoundErrors \cup {ErrBadRequest, ErrConflict})
              => response.status = 500
        /\ dbFailed => response.status = 500

\* the number a query parameter gives, when it gives one
GivenInt(param, n) == param.text = "int" /\ param.n = n

\* a request of the create, list, get, update or delete endpoint that fails
\* input validation: a path id that is no UUID, a body that is no JSON, a
\* required field missing, a negative price, a user_id that is no UUID, a
\* date that is no MM-YYYY, or a list filter with a limit above 100, a
\* negative number, or a max_price below its min_price
FailsInputValidation(req) ==
    \/ /\ req.op \in {"get", "update", "delete"}
       /\ req.ID.text # "uuid"
    \/ /\ req.op \in {"create", "update"}
       /\ \/ req.Body # "json"
          \/ req.ServiceName = ""
          \/ req.Price < 0
          \/ req.StartDate.text # "MM-YYYY"
          \/ req.EndDate.text \notin {"", "MM-YYYY"}
    \/ /\ req.op = "create"
       /\ req.UserID \notin UserIDs
    \/ /\ req.op = "list"
       /\ \/ \E n \in (MaxLimit + 1) .. (2 * MaxLimit) : GivenInt(req.Limit, n)
          \/ \E p \in {req.Limit, req.Offset, req.MinPrice, req.MaxPrice} : GivenInt(p, 0 - 1)
          \/ req.UserID \notin UserIDs \cup {""}
          \/ req.StartDate.text \notin {"", "MM-YYYY"}
          \/ /\ req.MinPrice.text = "int" /\ req.MaxPrice.text = "int"
             /\ req.MaxPrice.n < req.MinPrice.n

\* C25: a create, list, get, update or delete request that fails input
\* validation is answered 400, its service method is not called, no
\* repository method runs and the table is as it was.
C25_InvalidInputIsRejected ==
    [][(/\ pc' \in {"CreateSubscription", "ListSubscriptions", "GetSubscription",
                    "UpdateSubscription", "DeleteSubscription"}
        /\ FailsInputValidation(request'))
       => /\ response'.status = 400
          /\ ~serviceCalled'
          /\ logged' = <<>>
          /\ store' = store]_vars

\* a list request with limit 101 on a table that holds rows was answered
\* 400 without a service call
C25_Witness ==
    /\ pc = "ListSubscriptions"
    /\ request.Limit = IntParam(MaxLimit + 1)
    /\ store # {}
    /\ response.status = 400
    /\ ~serviceCalled
    /\ logged = <<>>

----------------------------------------------------------------------------
\* C26: graceful shutdown.  Once an interrupt has cancelled the context of
\* signal.NotifyContext, the process calls httpServer.Shutdown unless a fatal
\* error of ListenAndServe ends it first; once Shutdown is called the
\* process terminates, after at most the 10 seconds of shutdownCtx even if a
\* request never ends; and ListenAndServe returning http.ErrServerClosed is
\* never the fatal "ListenAndServe error".
C26_GracefulShutdown ==
    /\ proc.ctxDone ~> (proc.shutdownCalled \/ proc.fatal = "ListenAndServe error")
    /\ proc.shutdownCalled ~> (proc.exit \in {"exit 0", "exit 1"})
    /\ [](proc.exit = "exit 1" /\ proc.shutdownCalled
            => proc.elapsed = ShutdownTimeout /\ proc.fatal = "HTTP server shutdown error")
    /\ [](proc.listenErr = "http.ErrServerClosed" => proc.fatal # "ListenAndServe error")

\* C26 as stated: every interrupt the process receives leads to a call of
\* httpServer.Shutdown
C26_EveryInterruptLeadsToShutdown ==
    proc.interrupted ~> proc.shutdownCalled

\* an interrupt was answered by Shutdown, ListenAndServe returned
\* http.ErrServerClosed and main returned
C26_Witness ==
    /\ proc.pc = "main"
    /\ proc.interrupted
    /\ proc.shutdownCalled
    /\ proc.listenErr = "http.ErrServerClosed"
    /\ proc.exit = "exit 0"

----------------------------------------------------------------------------
\* C27: every row of a returned cost call that is not skipped is billed
\* between 1 and monthsBetween(periodStart, periodEnd) months: its overlap
\* starts no earlier than periodStart and ends no later than the periodEnd
\* month, and its cost is price * months, at most price *
\* monthsBetween(periodStart, periodEnd) for a price >= 0.  Rows of any day
\* of the month, rows ending before they start and reversed periods included.
C27_MonthsBilledWithinPeriod ==
    Returned =>
        \A i \in 1 .. Len(logged) :
            ~logged[i].skipped =>
                LET sub == Rows[i]
                    months == logged[i].months_counted
                    periodMonths == monthsBetween(PeriodStartMonth, PeriodEndMonth)
                IN  /\ 1 <= months /\ months <= periodMonths
                    /\ MonthLE(PeriodStartMonth, CalMonth(OverlapStart(sub, filter)))
                    /\ ~Before(OverlapStart(sub, filter), filter.PeriodStart)
                    /\ MonthLE(CalMonth(OverlapEnd(sub, filter)), PeriodEndMonth)
                    /\ logged[i].cost_for_this_sub = sub.Price * months
                    /\ sub.Price >= 0 => logged[i].cost_for_this_sub <= sub.Price * periodMonths

\* a closed row that starts before the period and ends after it is billed
\* every month of the period
C27_Witness ==
    /\ Returned
    /\ Len(Rows) = 1 /\ Len(logged) = 1
    /\ Rows[1].Price > 0
    /\ Rows[1].EndDate # Nil
    /\ MonthLT(StartMonth(Rows[1]), PeriodStartMonth)
    /\ MonthLT(PeriodEndMonth, EndMonth(Rows[1]))
    /\ ~logged[1].skipped
    /\ logged[1].months_counted = monthsBetween(PeriodStartMonth, PeriodEndMonth)

----------------------------------------------------------------------------
AllCallsReturned == \A k \in 1 .. 3 : calls[k].pc = "returned" /\ calls[k].result.err = NoError

\* the three calls are over [a, c], [a, b] and [b + 1 month, c] with a <= b < c
AdjacentPeriods ==
    /\ MonthLE(CalMonth(calls[1].filter.PeriodStart), CalMonth(calls[2].filter.PeriodEnd))
    /\ MonthLT(CalMonth(calls[2].filter.PeriodEnd), CalMonth(calls[1].filter.PeriodEnd))

\* every row is month-aligned and ends no earlier than it starts
AlignedRows ==
    \A i \in 1 .. Len(Rows) : IsMonthAligned(Rows[i]) /\ CheckEndDate(Rows[i])

TotalOfCall(k) == calls[k].result.totalCost

\* C28: for a list of month-aligned rows with endDate >= startDate and months
\* a <= b < c, the total over [a, c] is the total over [a, b] plus the total
\* over [b + 1 month, c]; with non-negative prices the total over [a, c] is
\* no less than the total over [a, b] (periodEnd extended) and no less than
\* the total over [b + 1 month, c] (periodStart moved earlier).
C28_AdditiveOverAdjacentPeriods ==
    (AllCallsReturned /\ AdjacentPeriods /\ AlignedRows) =>
        /\ TotalOfCall(1) = TotalOfCall(2) + TotalOfCall(3)
        /\ (\A i \in 1 .. Len(Rows) : Rows[i].Price >= 0) =>
              /\ TotalOfCall(1) >= TotalOfCall(2)
              /\ TotalOfCall(1) >= TotalOfCall(3)

\* two rows of positive price, one open-ended and one closed, billed in both
\* parts of a period with a < b < c
C28_Witness ==
    /\ AllCallsReturned /\ AdjacentPeriods /\ AlignedRows
    /\ MonthLT(CalMonth(calls[1].filter.PeriodStart), CalMonth(calls[2].filter.PeriodEnd))
    /\ Len(Rows) = 2
    /\ Rows[1].Price > 0 /\ Rows[2].Price > 0
    /\ Rows[1].EndDate = Nil /\ Rows[2].EndDate # Nil
    /\ TotalOfCall(2) > 0 /\ TotalOfCall(3) > 0
    /\ TotalOfCall(1) > TotalOfCall(2) /\ TotalOfCall(1) > TotalOfCall(3)

----------------------------------------------------------------------------
MutableFields(row) == <<row.ServiceName, row.Price, row.StartDate, row.EndDate>>

\* the updates of the id that have returned without error
SucceededUpdates(id) ==
    {p \in Procs : /\ calls[p].op = "update" /\ calls[p].pc = "returned"
                   /\ calls[p].ID = id /\ calls[p].err = NoError}

\* C29: UpdateSubscription reads and then writes in two statements.  An
\* update whose write finds the row deleted since its read returns the
\* not-found error and changes nothing, and no step brings an id back into
\* the table; every stored row has the id and userID it started with and
\* the four mutable fields of one update request that succeeded, all four
\* of the same request, or its original fields when no update succeeded.
C29_UpdateRaces ==
    /\ [][\A p \in Procs :
            (/\ calls[p].pc = "read" /\ calls'[p].pc = "returned"
             /\ calls[p].ID \notin StoredIds(store))
            => (calls'[p].err = ErrNotFoundUpdate /\ store' = store)]_vars
    /\ [][StoredIds(store') \subseteq StoredIds(store)]_vars
    /\ [](\A r \in store :
            \E o \in RaceRows :
                /\ o.ID = r.ID /\ o.UserID = r.UserID
                /\ IF SucceededUpdates(r.ID) = {}
                   THEN r = o
                   ELSE \E p \in SucceededUpdates(r.ID) :
                            MutableFields(r) = MutableFields(calls[p].subToUpdate[1]))
    /\ [](\A r \in store, q \in store : r.ID = q.ID => r = q)

\* an update read the row, a delete of the id returned without error and the
\* update's write then returned not-found; the id is not in the table
C29_Witness ==
    \E p \in Procs, q \in Procs :
        /\ calls[p].op = "update" /\ calls[p].pc = "returned"
        /\ calls[p].existingSubDAO # <<>>
        /\ calls[p].err = ErrNotFoundUpdate
        /\ calls[q].op = "delete" /\ calls[q].ID = calls[p].ID /\ calls[q].err = NoError
        /\ calls[p].ID \notin StoredIds(store)

\* two updates of the same id both read the row before either wrote, and
\* both succeeded
C29_WitnessTwoUpdates ==
    \E p \in Procs, q \in Procs :
        /\ p # q
        /\ p \in SucceededUpdates(1) /\ q \in SucceededUpdates(1)
        /\ calls[p].existingSubDAO = calls[q].existingSubDAO
        /\ MutableFields(calls[p].existingSubDAO[1]) # MutableFields(calls[q].subToUpdate[1])
        /\ MutableFields(calls[p].subToUpdate[1]) # MutableFields(calls[q].subToUpdate[1])

----------------------------------------------------------------------------
\* C30: ConnectDB terminates, and with one of two outcomes: it returns the
\* handle only after a ping that started on a tick of the 2-second ticker
\* succeeded before the 30-second deadline, or it returns the timeout error
\* once the deadline has passed with no successful ping; a ping that fails
\* leaves the goroutine in the loop, at its select.
C30_ConnectDBTerminates ==
    /\ <>(proc.ret # "none")
    /\ [](proc.ret \in {"none", "db", "timeout"})
    /\ [](proc.ret = "db" =>
            /\ proc.pingOK
            /\ proc.now < ConnectTimeout
            /\ proc.pingTick >= TickInterval /\ proc.pingTick % TickInterval = 0
            /\ proc.pingTick <= proc.now)
    /\ [](proc.ret = "timeout" => proc.now >= ConnectTimeout /\ ~proc.pingOK)
    /\ [][(proc.at = "PingContext" /\ proc'.at # "PingContext" /\ ~proc'.pingOK)
            => (proc'.ret = "none" /\ proc'.at = "select")]_vars

\* the handle is returned after pings that failed, on a later tick
C30_Witness ==
    /\ proc.pc = "ConnectDB"
    /\ proc.ret = "db"
    /\ proc.failedPings
    /\ proc.pingTick > TickInterval

\* the timeout error is returned after a ping that started at the deadline
\* failed
C30_WitnessTimeout ==
    /\ proc.pc = "ConnectDB"
    /\ proc.ret = "timeout"
    /\ proc.failedPings
    /\ proc.pingTick = ConnectTimeout

====
